---- MODULE Spec2Model ----
(***************************************************************************)
(* Verification model of the relearn reinforcement-learning library.       *)
(*                                                                         *)
(* Spec      : the meta environment (MetaEnv, optionally wrapped in        *)
(*             TrialEpisodeLimit) driven by a ResettingMetaAgent under the *)
(*             episode protocol.                                           *)
(* SpecBatch : a SerialBatchAgent wrapping BatchedUpdates, fed a stream of *)
(*             environment steps through its history buffer.               *)
(* SpecTrainer : run_agent_multithread: worker threads and the manager.    *)
(* SpecLog   : a StatsLogger under ScopedLogger and LogGroup wrappers.     *)
(* SpecOpt   : update rules over optimizers and their step errors.         *)
(* SpecSpace : size, to_index and from_index of finite spaces.             *)
(***************************************************************************)
EXTENDS Integers, Sequences, FiniteSets, TLC

\* ------------------------------------------------------------------------
\* Bounds of the model
\* ------------------------------------------------------------------------
NumActions == 2
NumInnerStates == 2
MaxEpisodes == 3
MaxHard == 2
MaxBufferSteps == 2

ActionSpace == 0 .. (NumActions - 1)
InnerStates == 0 .. (NumInnerStates - 1)
SuccessorTags == {"Continue", "Terminate", "Interrupt"}

\* ------------------------------------------------------------------------
\* Option<T> and Successor<T>
\* ------------------------------------------------------------------------
None == << >>
Some(x) == << x >>
is_some(o) == Len(o) = 1
unwrap(o) == o[1]

Continue(s) == << "Continue", s >>
Terminate == << "Terminate" >>
Interrupt(s) == << "Interrupt", s >>

\* Successor::episode_done: every successor but Continue ends the episode.
episode_done(successor) == successor[1] # "Continue"

\* Successor::into_inner: the successor value, absent for Terminate.
into_inner(successor) ==
    IF successor[1] = "Terminate" THEN None ELSE Some(successor[2])

\* Successor::then_interrupt_if with the predicate already evaluated on the
\* successor value: a Continue(s) becomes Interrupt(s) when it holds.
then_interrupt_if(successor, cond) ==
    IF successor[1] = "Continue" /\ cond THEN Interrupt(successor[2]) ELSE successor

\* ------------------------------------------------------------------------
\* The inner environment E sampled from the environment distribution.
\* An inner environment is identified by its target action; draws of the
\* random number generator are passed as the record r.
\* ------------------------------------------------------------------------
ObsOffset == 10

sample_environment(r) == r.env

Inner_initial_state(inner_env, r) == r.init

Inner_observe(inner_env, s) == ObsOffset + s

Inner_step(inner_env, s, action, r) ==
    [successor |-> IF r.tag = "Terminate" THEN Terminate ELSE << r.tag, r.s >>,
     feedback |-> IF action = inner_env THEN 1 ELSE 0]

\* ------------------------------------------------------------------------
\* MetaFeedback for Reward
\* ------------------------------------------------------------------------
neutral_outer == 0

\* Variant: the outer feedback of a reward is the neutral one.
into_inner_outer_neutral(feedback) == << feedback, neutral_outer >>

into_inner_outer(feedback) == << feedback, feedback >>

\* ------------------------------------------------------------------------
\* MetaEnv
\* ------------------------------------------------------------------------
MetaEnv_initial_state(r) ==
    LET inner_env == sample_environment(r)
        inner_state == Inner_initial_state(inner_env, r)
    IN [inner_env |-> inner_env,
        inner_successor |-> Continue(inner_state),
        prev_step_obs |-> None]

\* Variant: the inner observation is dropped whenever the inner episode is done.
MetaEnv_observe_drops_interrupt(state) ==
    LET suc == state.inner_successor
        inner_successor_obs ==
            IF suc[1] = "Terminate" THEN Terminate
            ELSE << suc[1], Inner_observe(state.inner_env, suc[2]) >>
    IN [inner_observation |-> IF episode_done(inner_successor_obs) THEN None
                              ELSE into_inner(inner_successor_obs),
        prev_step |-> state.prev_step_obs,
        episode_done |-> episode_done(inner_successor_obs)]

\* Variant: only an interrupted inner episode counts as done.
MetaEnv_observe_interrupt_only(state) ==
    LET suc == state.inner_successor
        inner_successor_obs ==
            IF suc[1] = "Terminate" THEN Terminate
            ELSE << suc[1], Inner_observe(state.inner_env, suc[2]) >>
    IN [inner_observation |-> into_inner(inner_successor_obs),
        prev_step |-> state.prev_step_obs,
        episode_done |-> inner_successor_obs[1] = "Interrupt"]

MetaEnv_observe(state) ==
    LET suc == state.inner_successor
        inner_successor_obs ==
            IF suc[1] = "Terminate" THEN Terminate
            ELSE << suc[1], Inner_observe(state.inner_env, suc[2]) >>
    IN [inner_observation |-> into_inner(inner_successor_obs),
        prev_step |-> state.prev_step_obs,
        episode_done |-> episode_done(inner_successor_obs)]

\* Variant: the boundary step records the ignored action as a previous step.
MetaEnv_step_records_action(state, action, r) ==
    IF state.inner_successor[1] = "Continue"
    THEN LET res == Inner_step(state.inner_env, state.inner_successor[2], action, r)
             io == into_inner_outer(res.feedback)
             new_state == [inner_env |-> state.inner_env,
                           inner_successor |-> res.successor,
                           prev_step_obs |-> Some([action |-> action, feedback |-> io[1]])]
         IN [successor |-> Continue(new_state), feedback |-> io[2], inner_steps |-> 1]
    ELSE LET inner_state == Inner_initial_state(state.inner_env, r)
             new_state == [inner_env |-> state.inner_env,
                           inner_successor |-> Continue(inner_state),
                           prev_step_obs |-> Some([action |-> action,
                                                   feedback |-> neutral_outer])]
         IN [successor |-> Continue(new_state), feedback |-> neutral_outer, inner_steps |-> 0]

\* Variant: the boundary step keeps the previous step observation.
MetaEnv_step_keeps_prev(state, action, r) ==
    IF state.inner_successor[1] = "Continue"
    THEN LET res == Inner_step(state.inner_env, state.inner_successor[2], action, r)
             io == into_inner_outer(res.feedback)
             new_state == [inner_env |-> state.inner_env,
                           inner_successor |-> res.successor,
                           prev_step_obs |-> Some([action |-> action, feedback |-> io[1]])]
         IN [successor |-> Continue(new_state), feedback |-> io[2], inner_steps |-> 1]
    ELSE LET inner_state == Inner_initial_state(state.inner_env, r)
             new_state == [inner_env |-> state.inner_env,
                           inner_successor |-> Continue(inner_state),
                           prev_step_obs |-> state.prev_step_obs]
         IN [successor |-> Continue(new_state), feedback |-> neutral_outer, inner_steps |-> 0]

\* Variant: the boundary step repeats the feedback of the step before it.
MetaEnv_step_repeats_feedback(state, action, r) ==
    IF state.inner_successor[1] = "Continue"
    THEN LET res == Inner_step(state.inner_env, state.inner_successor[2], action, r)
             io == into_inner_outer(res.feedback)
             new_state == [inner_env |-> state.inner_env,
                           inner_successor |-> res.successor,
                           prev_step_obs |-> Some([action |-> action, feedback |-> io[1]])]
         IN [successor |-> Continue(new_state), feedback |-> io[2], inner_steps |-> 1]
    ELSE LET inner_state == Inner_initial_state(state.inner_env, r)
             new_state == [inner_env |-> state.inner_env,
                           inner_successor |-> Continue(inner_state),
                           prev_step_obs |-> None]
         IN [successor |-> Continue(new_state),
             feedback |-> IF is_some(state.prev_step_obs)
                          THEN into_inner_outer(unwrap(state.prev_step_obs).feedback)[2]
                          ELSE neutral_outer,
             inner_steps |-> 0]

\* Variant: a terminated inner episode terminates the meta episode.
MetaEnv_step_passes_terminate(state, action, r) ==
    IF state.inner_successor[1] = "Continue"
    THEN LET res == Inner_step(state.inner_env, state.inner_successor[2], action, r)
             io == into_inner_outer(res.feedback)
             new_state == [inner_env |-> state.inner_env,
                           inner_successor |-> res.successor,
                           prev_step_obs |-> Some([action |-> action, feedback |-> io[1]])]
         IN [successor |-> IF res.successor = Terminate THEN Terminate
                           ELSE Continue(new_state),
             feedback |-> io[2], inner_steps |-> 1]
    ELSE LET inner_state == Inner_initial_state(state.inner_env, r)
             new_state == [inner_env |-> state.inner_env,
                           inner_successor |-> Continue(inner_state),
                           prev_step_obs |-> None]
         IN [successor |-> Continue(new_state), feedback |-> neutral_outer, inner_steps |-> 0]

\* The result also counts the calls made to the inner environment's step.
MetaEnv_step(state, action, r) ==
    IF state.inner_successor[1] = "Continue"
    THEN LET res == Inner_step(state.inner_env, state.inner_successor[2], action, r)
             io == into_inner_outer(res.feedback)
             new_state == [inner_env |-> state.inner_env,
                           inner_successor |-> res.successor,
                           prev_step_obs |-> Some([action |-> action, feedback |-> io[1]])]
         IN [successor |-> Continue(new_state), feedback |-> io[2], inner_steps |-> 1]
    ELSE LET inner_state == Inner_initial_state(state.inner_env, r)
             new_state == [inner_env |-> state.inner_env,
                           inner_successor |-> Continue(inner_state),
                           prev_step_obs |-> None]
         IN [successor |-> Continue(new_state), feedback |-> neutral_outer, inner_steps |-> 0]

\* InnerEpisodeDone for MetaState
inner_episode_done(state) == episode_done(state.inner_successor)

\* ------------------------------------------------------------------------
\* Wrapped<MetaEnv, TrialEpisodeLimit>: the state is (meta state, remaining)
\* ------------------------------------------------------------------------
\* TrialEpisodeLimit::new panics unless episodes_per_trial > 0.
TrialEpisodeLimit_new_panics(episodes_per_trial) == ~(episodes_per_trial > 0)

\* The assertion at the head of initial_state (the field is public, so a
\* wrapper can exist that new did not build).
TrialEpisodeLimit_initial_state_panics(episodes_per_trial) == ~(episodes_per_trial > 0)

TrialEpisodeLimit_initial_state(episodes_per_trial, r) ==
    << MetaEnv_initial_state(r), episodes_per_trial >>

TrialEpisodeLimit_observe(state) == MetaEnv_observe(state[1])

\* Variant: the counter is decremented by every step.
TrialEpisodeLimit_step_counts_steps(state, action, r) ==
    LET inner_state == state[1]
        remaining_episodes == state[2]
        inner == MetaEnv_step(inner_state, action, r)
        isuc == inner.successor
        mapped ==
            IF isuc[1] = "Terminate" THEN Terminate
            ELSE << isuc[1], << isuc[2], remaining_episodes - 1 >> >>
        successor ==
            IF mapped[1] = "Terminate" THEN mapped
            ELSE then_interrupt_if(mapped, mapped[2][2] = 0)
    IN [successor |-> successor, feedback |-> inner.feedback, inner_steps |-> inner.inner_steps]

\* Variant: the interrupt is decided on the counter before the decrement.
TrialEpisodeLimit_step_late_interrupt(state, action, r) ==
    LET inner_state == state[1]
        remaining_episodes == state[2]
        inner == MetaEnv_step(inner_state, action, r)
        isuc == inner.successor
        mapped ==
            IF isuc[1] = "Terminate" THEN Terminate
            ELSE << isuc[1],
                    << isuc[2],
                       IF inner_episode_done(isuc[2])
                       THEN remaining_episodes - 1 ELSE remaining_episodes >> >>
        successor ==
            IF mapped[1] = "Terminate" THEN mapped
            ELSE then_interrupt_if(mapped, remaining_episodes = 0)
    IN [successor |-> successor, feedback |-> inner.feedback, inner_steps |-> inner.inner_steps]

TrialEpisodeLimit_step(state, action, r) ==
    LET inner_state == state[1]
        remaining_episodes == state[2]
        inner == MetaEnv_step(inner_state, action, r)
        isuc == inner.successor
        mapped ==
            IF isuc[1] = "Terminate" THEN Terminate
            ELSE << isuc[1],
                    << isuc[2],
                       IF inner_episode_done(isuc[2])
                       THEN remaining_episodes - 1 ELSE remaining_episodes >> >>
        successor ==
            IF mapped[1] = "Terminate" THEN mapped
            ELSE then_interrupt_if(mapped, mapped[2][2] = 0)
    IN [successor |-> successor, feedback |-> inner.feedback, inner_steps |-> inner.inner_steps]

\* ------------------------------------------------------------------------
\* The inner agent of a ResettingMetaAgent: a SerialActorAgent around the
\* agent built from the inner configuration.  It remembers the most recent
\* update; its actor keeps an episode state that records whether it acted.
\* ------------------------------------------------------------------------
build_agent == [last_update |-> None]

SerialActorAgent_update(agent, step) == [agent EXCEPT !.last_update = Some(step)]

SerialActorAgent_initial_state(agent, r) == 0

SerialActorAgent_act(agent, actor_state, observation, r) ==
    [actor_state |-> 1, action |-> r.act]

\* NonEmptySpace::some_element of the action space
some_element(r) == r.some

\* ------------------------------------------------------------------------
\* ResettingMetaAgent
\* ------------------------------------------------------------------------
\* ResettingMetaAgent::from_meta_env: the inner agent configuration (given
\* by the agent it builds) and the structure of the inner environment.
ResettingMetaAgent_from_meta_env ==
    [inner_agent_config |-> build_agent,
     inner_env_structure |-> [action_space |-> ActionSpace]]

\* Agent::actor: a clone of the Arc, whatever the mode.
ResettingMetaAgent_actor(self, mode) == self

NullBuffer == [steps |-> << >>]
HistoryDataBound_empty == [min_steps |-> 0, slack_steps |-> 0]

\* BatchUpdate for Arc<ResettingMetaAgent>
ResettingMetaAgent_buffer(self) == NullBuffer

ResettingMetaAgent_min_update_size(self) == HistoryDataBound_empty

\* Variant: the batch update stores what the buffers hold in the agent.
ResettingMetaAgent_batch_update_learns(self, buffers) ==
    [self EXCEPT !.inner_agent_config = [last_update |-> Some(buffers)]]

\* batch_update has an empty body.
ResettingMetaAgent_batch_update(self, buffers) == self

ResettingMetaAgent_initial_state(r) ==
    LET inner_actor_agent == build_agent
    IN [inner_actor_state |-> SerialActorAgent_initial_state(inner_actor_agent, r),
        inner_actor_agent |-> inner_actor_agent,
        prev_observation |-> None]

\* Variant: the update carries the current inner observation, not the stored one.
ResettingMetaAgent_act_current_obs(state, obs, r) ==
    LET has_prev == is_some(obs.prev_step)
        step_obs == unwrap(obs.prev_step)
        missing_successor == ~is_some(obs.inner_observation) /\ ~obs.episode_done
        missing_previous == ~is_some(state.prev_observation)
        step_next ==
            IF is_some(obs.inner_observation)
            THEN IF obs.episode_done
                 THEN Interrupt(unwrap(obs.inner_observation))
                 ELSE Continue(<< >>)
            ELSE Terminate
        step == [observation |-> IF is_some(obs.inner_observation)
                                 THEN unwrap(obs.inner_observation)
                                 ELSE unwrap(state.prev_observation),
                 action |-> step_obs.action,
                 feedback |-> step_obs.feedback,
                 next |-> step_next]
        updated ==
            IF has_prev
            THEN [state EXCEPT !.prev_observation = None,
                               !.inner_actor_agent = SerialActorAgent_update(@, step)]
            ELSE state
        updates == IF has_prev THEN << step >> ELSE << >>
    IN IF (has_prev /\ (missing_successor \/ missing_previous))
          \/ (~obs.episode_done /\ ~is_some(obs.inner_observation))
       THEN [panic |-> TRUE, state |-> state, action |-> 0,
             updates |-> << >>, inner_acts |-> << >>]
       ELSE IF obs.episode_done
       THEN [panic |-> FALSE,
             state |-> [updated EXCEPT
                          !.inner_actor_state =
                              SerialActorAgent_initial_state(updated.inner_actor_agent, r),
                          !.prev_observation = None],
             action |-> some_element(r),
             updates |-> updates, inner_acts |-> << >>]
       ELSE LET res == SerialActorAgent_act(updated.inner_actor_agent,
                                            updated.inner_actor_state,
                                            unwrap(obs.inner_observation), r)
            IN [panic |-> FALSE,
                state |-> [updated EXCEPT
                             !.inner_actor_state = res.actor_state,
                             !.prev_observation = obs.inner_observation],
                action |-> res.action,
                updates |-> updates,
                inner_acts |-> << [observation |-> unwrap(obs.inner_observation),
                                   action |-> res.action] >>]

\* Variant: the inner actor's episode state is not reset at the end of an inner episode.
ResettingMetaAgent_act_no_reset(state, obs, r) ==
    LET has_prev == is_some(obs.prev_step)
        step_obs == unwrap(obs.prev_step)
        missing_successor == ~is_some(obs.inner_observation) /\ ~obs.episode_done
        missing_previous == ~is_some(state.prev_observation)
        step_next ==
            IF is_some(obs.inner_observation)
            THEN IF obs.episode_done
                 THEN Interrupt(unwrap(obs.inner_observation))
                 ELSE Continue(<< >>)
            ELSE Terminate
        step == [observation |-> unwrap(state.prev_observation),
                 action |-> step_obs.action,
                 feedback |-> step_obs.feedback,
                 next |-> step_next]
        updated ==
            IF has_prev
            THEN [state EXCEPT !.prev_observation = None,
                               !.inner_actor_agent = SerialActorAgent_update(@, step)]
            ELSE state
        updates == IF has_prev THEN << step >> ELSE << >>
    IN IF (has_prev /\ (missing_successor \/ missing_previous))
          \/ (~obs.episode_done /\ ~is_some(obs.inner_observation))
       THEN [panic |-> TRUE, state |-> state, action |-> 0,
             updates |-> << >>, inner_acts |-> << >>]
       ELSE IF obs.episode_done
       THEN [panic |-> FALSE,
             state |-> [updated EXCEPT !.prev_observation = None],
             action |-> some_element(r),
             updates |-> updates, inner_acts |-> << >>]
       ELSE LET res == SerialActorAgent_act(updated.inner_actor_agent,
                                            updated.inner_actor_state,
                                            unwrap(obs.inner_observation), r)
            IN [panic |-> FALSE,
                state |-> [updated EXCEPT
                             !.inner_actor_state = res.actor_state,
                             !.prev_observation = obs.inner_observation],
                action |-> res.action,
                updates |-> updates,
                inner_acts |-> << [observation |-> unwrap(obs.inner_observation),
                                   action |-> res.action] >>]

\* The result carries the new episode state and the action, and records the
\* updates delivered to the inner agent and the observations its actor was
\* asked to act on; panic is set when the call panics.
ResettingMetaAgent_act(state, obs, r) ==
    LET has_prev == is_some(obs.prev_step)
        step_obs == unwrap(obs.prev_step)
        missing_successor == ~is_some(obs.inner_observation) /\ ~obs.episode_done
        missing_previous == ~is_some(state.prev_observation)
        step_next ==
            IF is_some(obs.inner_observation)
            THEN IF obs.episode_done
                 THEN Interrupt(unwrap(obs.inner_observation))
                 ELSE Continue(<< >>)
            ELSE Terminate
        step == [observation |-> unwrap(state.prev_observation),
                 action |-> step_obs.action,
                 feedback |-> step_obs.feedback,
                 next |-> step_next]
        updated ==
            IF has_prev
            THEN [state EXCEPT !.prev_observation = None,
                               !.inner_actor_agent = SerialActorAgent_update(@, step)]
            ELSE state
        updates == IF has_prev THEN << step >> ELSE << >>
    IN IF (has_prev /\ (missing_successor \/ missing_previous))
          \/ (~obs.episode_done /\ ~is_some(obs.inner_observation))
       THEN [panic |-> TRUE, state |-> state, action |-> 0,
             updates |-> << >>, inner_acts |-> << >>]
       ELSE IF obs.episode_done
       THEN [panic |-> FALSE,
             state |-> [updated EXCEPT
                          !.inner_actor_state =
                              SerialActorAgent_initial_state(updated.inner_actor_agent, r),
                          !.prev_observation = None],
             action |-> some_element(r),
             updates |-> updates, inner_acts |-> << >>]
       ELSE LET res == SerialActorAgent_act(updated.inner_actor_agent,
                                            updated.inner_actor_state,
                                            unwrap(obs.inner_observation), r)
            IN [panic |-> FALSE,
                state |-> [updated EXCEPT
                             !.inner_actor_state = res.actor_state,
                             !.prev_observation = obs.inner_observation],
                action |-> res.action,
                updates |-> updates,
                inner_acts |-> << [observation |-> unwrap(obs.inner_observation),
                                   action |-> res.action] >>]

\* ------------------------------------------------------------------------
\* History buffer (SerialBuffer) and the steps it stores
\* ------------------------------------------------------------------------
StreamObs == 0 .. 1

\* TransientStep::into_partial: the successor keeps its tag; the observation
\* of a Continue successor is dropped, that of an Interrupt is kept.
into_partial(step) ==
    [observation |-> step.observation,
     action |-> step.action,
     reward |-> step.reward,
     next |-> IF step.next[1] = "Continue" THEN Continue(<< >>) ELSE step.next]

build_history_buffer(soft, hard) ==
    [soft_threshold |-> soft, hard_threshold |-> hard, steps |-> << >>]

\* Variant: the hard threshold must be exceeded, not reached.
SerialBuffer_push_exceeds(buffer, step) ==
    LET steps == Append(buffer.steps, step)
    IN [buffer |-> [buffer EXCEPT !.steps = steps],
        full |-> \/ Len(steps) > buffer.hard_threshold
                 \/ (Len(steps) >= buffer.soft_threshold /\ step.next[1] # "Continue")]

\* WriteHistoryBuffer::push: append the step and report whether the buffer is full.
SerialBuffer_push(buffer, step) ==
    LET steps == Append(buffer.steps, step)
    IN [buffer |-> [buffer EXCEPT !.steps = steps],
        full |-> \/ Len(steps) >= buffer.hard_threshold
                 \/ (Len(steps) >= buffer.soft_threshold /\ step.next[1] # "Continue")]

\* HistoryBuffer::drain_steps: all stored steps in order; the buffer is left empty.
SerialBuffer_drain_steps(buffer) ==
    [steps |-> buffer.steps, buffer |-> [buffer EXCEPT !.steps = << >>]]

\* ------------------------------------------------------------------------
\* The synchronous agent wrapped by BatchedUpdates: remembers its last update.
\* ------------------------------------------------------------------------
build_sync_agent == [last_update |-> None]

SyncAgent_update(agent, step) == [agent EXCEPT !.last_update = Some(step)]

\* ------------------------------------------------------------------------
\* BatchedUpdates::batch_update
\* ------------------------------------------------------------------------
\* Variant: a Continue step without next step is delivered as Terminate.
RECURSIVE BatchedUpdates_deliver_terminates(_, _, _)
BatchedUpdates_deliver_terminates(steps, i, acc) ==
    IF i > Len(steps) THEN acc
    ELSE LET step == steps[i]
             ref_next == IF step.next[1] = "Continue"
                         THEN IF i = Len(steps) THEN Terminate
                              ELSE Continue(steps[i + 1].observation)
                         ELSE step.next
             transient_step == [observation |-> step.observation,
                                action |-> step.action,
                                reward |-> step.reward,
                                next |-> ref_next]
         IN BatchedUpdates_deliver_terminates(steps, i + 1,
                [agent |-> SyncAgent_update(acc.agent, transient_step),
                 delivered |-> Append(acc.delivered, transient_step)])

\* The while-let loop over the peekable drained steps of one buffer, from
\* position i; acc holds the agent and the steps delivered to it so far.
RECURSIVE BatchedUpdates_deliver(_, _, _)
BatchedUpdates_deliver(steps, i, acc) ==
    IF i > Len(steps) THEN acc
    ELSE LET step == steps[i]
             incomplete == step.next[1] = "Continue" /\ i = Len(steps)
             ref_next == IF step.next[1] = "Continue"
                         THEN Continue(steps[i + 1].observation)
                         ELSE step.next
             transient_step == [observation |-> step.observation,
                                action |-> step.action,
                                reward |-> step.reward,
                                next |-> ref_next]
         IN IF incomplete THEN acc
            ELSE BatchedUpdates_deliver(steps, i + 1,
                     [agent |-> SyncAgent_update(acc.agent, transient_step),
                      delivered |-> Append(acc.delivered, transient_step)])

\* The for loop over the buffers, from buffer b; the result records, per
\* call, the drained steps of every buffer and the steps delivered.
RECURSIVE BatchedUpdates_buffers(_, _, _)
BatchedUpdates_buffers(buffers, b, acc) ==
    IF b > Len(buffers) THEN acc
    ELSE LET drain == SerialBuffer_drain_steps(buffers[b])
             res == BatchedUpdates_deliver(drain.steps, 1,
                        [agent |-> acc.self.agent, delivered |-> acc.delivered])
         IN BatchedUpdates_buffers(buffers, b + 1,
                [self |-> [agent |-> res.agent],
                 buffers |-> Append(acc.buffers, drain.buffer),
                 drained |-> Append(acc.drained, drain.steps),
                 delivered |-> res.delivered])

\* Variant: the steps are read from the buffers without draining them.
BatchedUpdates_batch_update_no_drain(self, buffers) ==
    LET res == BatchedUpdates_buffers(buffers, 1,
                   [self |-> self, buffers |-> << >>, drained |-> << >>,
                    delivered |-> << >>])
    IN [res EXCEPT !.buffers = buffers]

\* Variant: the steps of a buffer are delivered last-pushed first.
BatchedUpdates_batch_update_reversed(self, buffers) ==
    LET res == BatchedUpdates_buffers(buffers, 1,
                   [self |-> self, buffers |-> << >>, drained |-> << >>,
                    delivered |-> << >>])
        n == Len(res.delivered)
    IN [res EXCEPT !.delivered = [i \in 1 .. n |-> res.delivered[n + 1 - i]]]

BatchedUpdates_batch_update(self, buffers) ==
    BatchedUpdates_buffers(buffers, 1,
        [self |-> self, buffers |-> << >>, drained |-> << >>, delivered |-> << >>])

\* ------------------------------------------------------------------------
\* SerialBatchAgent::update
\* ------------------------------------------------------------------------
\* Variant: a batch update follows every push.
SerialBatchAgent_update_always(self, step) ==
    LET pushed == SerialBuffer_push(self.history, into_partial(step))
        full == pushed.full
        res == BatchedUpdates_batch_update(self.agent, << pushed.buffer >>)
    IN [self |-> [agent |-> res.self, history |-> res.buffers[1]],
        full |-> full,
        batch_updates |-> << [drained |-> res.drained,
                              delivered |-> res.delivered] >>]

SerialBatchAgent_update(self, step) ==
    LET pushed == SerialBuffer_push(self.history, into_partial(step))
        full == pushed.full
    IN IF full
       THEN LET res == BatchedUpdates_batch_update(self.agent, << pushed.buffer >>)
            IN [self |-> [agent |-> res.self, history |-> res.buffers[1]],
                full |-> full,
                batch_updates |-> << [drained |-> res.drained,
                                      delivered |-> res.delivered] >>]
       ELSE [self |-> [agent |-> self.agent, history |-> pushed.buffer],
             full |-> full,
             batch_updates |-> << >>]

\* ------------------------------------------------------------------------
\* run_agent_multithread: worker threads and the manager agent
\* ------------------------------------------------------------------------
MaxWorkers == 2
NumPeriods == 2
MinWorkerSteps == 2
ParamMod == 3

Params == 0 .. (ParamMod - 1)

\* Seeds of worker i (0-based): the environment gets 2 i, the worker agent
\* (make_worker(env_seed + 1)) gets 2 i + 1.
env_seed(i) == 2 * i

worker_seed(i) == env_seed(i) + 1

\* The k-th step of a round of a worker: a deterministic function of its
\* seeds, of the parameter snapshot it acts with and of k.
Worker_step(seed, snapshot, k) ==
    [observation |-> k % 2,
     action |-> ((seed \div 2) + snapshot + k) % NumActions,
     reward |-> (seed + k) % 2,
     next |-> IF ((seed \div 2) + k) % 2 = 1 THEN Terminate ELSE Continue(<< >>)]

\* The buffer a worker fills in a round: at least MinWorkerSteps steps, and
\* one more at most to close the episode.
Worker_buffer == build_history_buffer(MinWorkerSteps, MinWorkerSteps + 1)

\* A spawned worker thread: it acts with its snapshot of the parameters.
Worker_new(i, params) ==
    [status |-> "running", seed |-> worker_seed(i), env_seed |-> env_seed(i),
     round |-> 0, snapshot |-> params, buffer |-> Worker_buffer]

\* The manager's batch update over the steps of one buffer, from step i.
RECURSIVE Manager_update_steps(_, _, _)
Manager_update_steps(params, steps, i) ==
    IF i > Len(steps) THEN params
    ELSE Manager_update_steps((2 * params + steps[i].action + 1) % ParamMod, steps, i + 1)

\* The manager's batch update over the buffers, from buffer b.
RECURSIVE Manager_batch_update(_, _, _)
Manager_batch_update(params, buffers, b) ==
    IF b > Len(buffers) THEN params
    ELSE Manager_batch_update(
             Manager_update_steps(params, SerialBuffer_drain_steps(buffers[b]).steps, 1),
             buffers, b + 1)

\* The steps of the buffers worker w handed over, in hand-over order.
RECURSIVE Inbox_of(_, _, _)
Inbox_of(inbox, w, i) ==
    IF i > Len(inbox) THEN << >>
    ELSE (IF inbox[i].worker = w THEN << inbox[i].buffer >> ELSE << >>)
         \o Inbox_of(inbox, w, i + 1)

RECURSIVE Inbox_by_worker(_, _, _)
Inbox_by_worker(inbox, w, n) ==
    IF w > n THEN << >> ELSE Inbox_of(inbox, w, 1) \o Inbox_by_worker(inbox, w + 1, n)

\* Variant: the buffers are given to the update in the order they arrived.
Manager_buffers_arrival(inbox, n) == [i \in 1 .. Len(inbox) |-> inbox[i].buffer]

\* The buffers of a round as given to batch_update: one per worker, in
\* worker order.
Manager_buffers(inbox, n) == Inbox_by_worker(inbox, 1, n)

\* Variant: the update starts as soon as one worker handed its buffer over.
Manager_round_complete_any(inbox, n) == Len(inbox) >= 1

\* The manager updates once every worker of the round handed its buffer over.
Manager_round_complete(inbox, n) == Len(inbox) = n

\* Variant: the result of the join is dropped.
join_unwrap_ignored(status) == "ok"

\* thread.join().unwrap(): a panicked thread makes unwrap panic.
join_unwrap(status) == IF status = "panicked" THEN "panic" ELSE "ok"

Manager_new(params) ==
    [status |-> "collect", params |-> params, round |-> 0, inbox |-> << >>,
     buffers |-> << >>, trajectory |-> << params >>, updates |-> 0]

\* ------------------------------------------------------------------------
\* Logging: Id, LogValue, the sink, and the wrappers ScopedLogger / LogGroup
\* ------------------------------------------------------------------------
MaxLogOps == 4
MaxWrappers == 2

Reverse(seq) == [i \in 1 .. Len(seq) |-> seq[Len(seq) + 1 - i]]

\* Id::from(name): no namespace.
Id_from(name) == [name |-> name, namespace |-> << >>]

\* Id::from_iter: the last item is the name, the namespace is stored from
\* innermost to outermost.
Id_from_iter(items) ==
    [name |-> items[Len(items)],
     namespace |-> Reverse(SubSeq(items, 1, Len(items) - 1))]

\* Variant: the scope is put at the innermost end of the namespace.
Id_with_prefix_innermost(id, scope) ==
    [id EXCEPT !.namespace = << scope >> \o @]

\* Id::with_prefix: push the scope as the new outermost namespace entry.
Id_with_prefix(id, scope) == [id EXCEPT !.namespace = Append(@, scope)]

\* Id::components: namespace from outermost to innermost, then the name.
Id_components(id) == Reverse(id.namespace) \o << id.name >>

Scopes == {"p", "q"}
Ids == {Id_from("x"), Id_from_iter(<< "p", "x" >>)}

LogValues ==
    {[variant |-> "CounterIncrement", value |-> 1, size |-> 0],
     [variant |-> "Scalar", value |-> 0, size |-> 0]}
    \cup {[variant |-> "Index", value |-> 0, size |-> n] : n \in 2 .. 3}

\* LogValue::variant_name
variant_name(value) == value.variant

Ok == [tag |-> "Ok"]
IncompatibleValue(prev, now) == [tag |-> "IncompatibleValue", prev |-> prev, now |-> now]
IncompatibleIndexSize(prev, now) ==
    [tag |-> "IncompatibleIndexSize", prev |-> prev, now |-> now]

\* The sink: the calls it received, and per id the variant (and index size)
\* first seen with the number of values aggregated under it.
\* pair_calls are the calls received by the second logger of a pair.
Sink_new == [calls |-> << >>, summaries |-> << >>, rejected |-> 0, pair_calls |-> << >>]

Sink_group_start(sink) == [sink EXCEPT !.calls = Append(@, [call |-> "group_start"])]
Sink_group_end(sink) == [sink EXCEPT !.calls = Append(@, [call |-> "group_end"])]
Sink_flush(sink) == [sink EXCEPT !.calls = Append(@, [call |-> "flush"])]

Sink_find(summaries, key) == {i \in 1 .. Len(summaries) : summaries[i].id = key}

\* group_log of the sink: a value is checked against the summary of its id.
Sink_group_log(sink, id, value) ==
    LET key == Id_components(id)
        called == [sink EXCEPT !.calls =
                     Append(@, [call |-> "group_log", id |-> key, value |-> value])]
        found == Sink_find(sink.summaries, key)
        fresh == [id |-> key, variant |-> variant_name(value), size |-> value.size,
                  count |-> 1]
    IN IF found = {}
       THEN [sink |-> [called EXCEPT !.summaries = Append(@, fresh)], result |-> Ok]
       ELSE LET i == CHOOSE i \in found : TRUE
                prev == sink.summaries[i]
            IN IF prev.variant # variant_name(value)
               THEN [sink |-> [called EXCEPT !.rejected = @ + 1],
                     result |-> IncompatibleValue(prev.variant, variant_name(value))]
               ELSE IF prev.variant = "Index" /\ prev.size # value.size
               THEN [sink |-> [called EXCEPT !.rejected = @ + 1],
                     result |-> IncompatibleIndexSize(prev.size, value.size)]
               ELSE [sink |-> [called EXCEPT !.summaries[i].count = @ + 1],
                     result |-> Ok]

\* The wrappers around the sink, outermost first.
ScopedLogger_new(scope) == [kind |-> "scope", scope |-> scope, since |-> 0]

RECURSIVE Logger_group_start(_, _, _)
RECURSIVE Logger_group_log(_, _, _, _, _)
RECURSIVE Logger_group_end(_, _, _)
RECURSIVE Logger_flush(_, _, _)

\* The second logger of a pair records its calls and accepts every value.
Second_group_start(sink) == [sink EXCEPT !.pair_calls = Append(@, [call |-> "group_start"])]
Second_group_end(sink) == [sink EXCEPT !.pair_calls = Append(@, [call |-> "group_end"])]
Second_flush(sink) == [sink EXCEPT !.pair_calls = Append(@, [call |-> "flush"])]
Second_group_log(sink, id, value) ==
    [sink |-> [sink EXCEPT !.pair_calls =
                 Append(@, [call |-> "group_log", id |-> Id_components(id),
                            value |-> value])],
     result |-> Ok]

\* Result::and: the first error, otherwise the second result.
Result_and(r1, r2) == IF r1.tag = "Ok" THEN r2 ELSE r1

\* (A, B) as StatsLogger: every call goes to both loggers, the first one
\* first; group_log reaches the second one even when the first one failed.
Pair_new == [kind |-> "pair", scope |-> "", since |-> 0]

Pair_group_start(wrappers, i, sink) ==
    Second_group_start(Logger_group_start(wrappers, i + 1, sink))

Pair_group_log(wrappers, i, sink, id, value) ==
    LET r1 == Logger_group_log(wrappers, i + 1, sink, id, value)
        r2 == Second_group_log(r1.sink, id, value)
    IN [sink |-> r2.sink, result |-> Result_and(r1.result, r2.result)]

Pair_group_end(wrappers, i, sink) ==
    Second_group_end(Logger_group_end(wrappers, i + 1, sink))

Pair_flush(wrappers, i, sink) ==
    Second_flush(Logger_flush(wrappers, i + 1, sink))

\* Variant: the group forwards group_start.
LogGroup_group_start_forwards(wrappers, i, sink) ==
    Logger_group_start(wrappers, i + 1, sink)

\* LogGroup as StatsLogger: group_start, group_end and flush do nothing,
\* group_log goes to the wrapped logger.
LogGroup_group_start(wrappers, i, sink) == sink

\* Variant: the group forwards group_end.
LogGroup_group_end_forwards(wrappers, i, sink) == Logger_group_end(wrappers, i + 1, sink)

LogGroup_group_end(wrappers, i, sink) == sink

LogGroup_flush(wrappers, i, sink) == sink

LogGroup_group_log(wrappers, i, sink, id, value) ==
    Logger_group_log(wrappers, i + 1, sink, id, value)

\* ScopedLogger as StatsLogger: everything is forwarded, ids with the scope
\* as prefix.
ScopedLogger_group_log(wrappers, i, sink, id, value) ==
    Logger_group_log(wrappers, i + 1, sink, Id_with_prefix(id, wrappers[i].scope), value)

\* Dispatch on the logger at position i of the chain; past the last wrapper
\* is the sink.
Logger_group_start(wrappers, i, sink) ==
    IF i > Len(wrappers) THEN Sink_group_start(sink)
    ELSE IF wrappers[i].kind = "group" THEN LogGroup_group_start(wrappers, i, sink)
    ELSE IF wrappers[i].kind = "pair" THEN Pair_group_start(wrappers, i, sink)
    ELSE Logger_group_start(wrappers, i + 1, sink)

Logger_group_log(wrappers, i, sink, id, value) ==
    IF i > Len(wrappers) THEN Sink_group_log(sink, id, value)
    ELSE IF wrappers[i].kind = "group"
    THEN LogGroup_group_log(wrappers, i, sink, id, value)
    ELSE IF wrappers[i].kind = "pair"
    THEN Pair_group_log(wrappers, i, sink, id, value)
    ELSE ScopedLogger_group_log(wrappers, i, sink, id, value)

Logger_group_end(wrappers, i, sink) ==
    IF i > Len(wrappers) THEN Sink_group_end(sink)
    ELSE IF wrappers[i].kind = "group" THEN LogGroup_group_end(wrappers, i, sink)
    ELSE IF wrappers[i].kind = "pair" THEN Pair_group_end(wrappers, i, sink)
    ELSE Logger_group_end(wrappers, i + 1, sink)

Logger_flush(wrappers, i, sink) ==
    IF i > Len(wrappers) THEN Sink_flush(sink)
    ELSE IF wrappers[i].kind = "group" THEN LogGroup_flush(wrappers, i, sink)
    ELSE IF wrappers[i].kind = "pair" THEN Pair_flush(wrappers, i, sink)
    ELSE Logger_flush(wrappers, i + 1, sink)

\* Variant: a failed group_log returns at once.
StatsLogger_log_returns_early(wrappers, sink, id, value) ==
    LET started == Logger_group_start(wrappers, 1, sink)
        logged == Logger_group_log(wrappers, 1, started, id, value)
    IN IF logged.result.tag # "Ok" THEN logged
       ELSE [sink |-> Logger_group_end(wrappers, 1, logged.sink), result |-> logged.result]

\* StatsLogger::log: group_start, group_log, group_end; the result is that
\* of group_log.
StatsLogger_log(wrappers, sink, id, value) ==
    LET started == Logger_group_start(wrappers, 1, sink)
        logged == Logger_group_log(wrappers, 1, started, id, value)
    IN [sink |-> Logger_group_end(wrappers, 1, logged.sink), result |-> logged.result]

\* LogGroup::new: group_start on the wrapped logger, then wrap it.
LogGroup_new(wrappers, sink) ==
    [wrappers |-> << [kind |-> "group", scope |-> "", since |-> Len(sink.calls)] >>
                  \o wrappers,
     sink |-> Logger_group_start(wrappers, 1, sink)]

\* Drop for LogGroup: group_end on the wrapped logger.
LogGroup_drop(wrappers, sink) ==
    [wrappers |-> Tail(wrappers), sink |-> Logger_group_end(Tail(wrappers), 1, sink)]

\* ------------------------------------------------------------------------
\* Optimizers and update rules (torch/optimizers, learning_critic/gradient.rs)
\* ------------------------------------------------------------------------
MaxParam == 3
MaxOptimizerIters == 2
MaxUpdates == 2

\* One scalar parameter and scalar losses. NaN is the value that is not a
\* number: every loss computed from it, or at the pole of the loss, is NaN.
NaN == -1
ParamValues == 0 .. MaxParam
is_nan(x) == x = NaN

\* The data of one update: the loss is the squared distance of the parameter
\* to target, and is not a number at pole (as x / x is at 0); pole = NaN
\* stands for a loss without pole.
Features == [target : ParamValues, pole : ParamValues \cup {NaN}]

loss_fn(params, features) ==
    IF is_nan(params) \/ params = features.pole THEN NaN
    ELSE (params - features.target) * (params - features.target)

\* loss.backward(): the gradient of the loss; not a number when the loss is.
backward(params, features) ==
    IF is_nan(loss_fn(params, features)) THEN [nan |-> TRUE, direction |-> 0]
    ELSE [nan |-> FALSE,
          direction |-> IF params > features.target THEN 1
                        ELSE IF params < features.target THEN -1 ELSE 0]

\* Result<T, OptimizerStepError>
OptimizerStepError == {"LossNotImproving", "ConstraintViolated", "NaNLoss", "NaNConstraint"}
StepOk(x) == [tag |-> "Ok", value |-> x, err |-> "none"]
StepErr(err) == [tag |-> "Err", value |-> 0, err |-> err]

\* OptimizerStepError::can_continue
can_continue(err) == err \in {"NaNLoss", "NaNConstraint"}

\* opt_expect_ok_log: Some on success, a warning and None on an error that
\* can be continued from, a panic on any other error.
opt_expect_ok_log(result) ==
    IF result.tag = "Ok"
    THEN [value |-> Some(result.value), warned |-> FALSE, panicked |-> FALSE]
    ELSE IF can_continue(result.err)
         THEN [value |-> None, warned |-> TRUE, panicked |-> FALSE]
         ELSE [value |-> None, warned |-> FALSE, panicked |-> TRUE]

\* COptimizer::step (gradient descent with a unit step): a gradient that is
\* not a number makes the parameter not a number.
COptimizer_step(params, gradient) ==
    IF is_nan(params) \/ gradient.nan THEN NaN ELSE params - gradient.direction

\* Optimizer for COptimizer: backward_step evaluates the loss, propagates it
\* back, steps and returns Ok(loss); it returns no error.
COptimizer_backward_step(params, features) ==
    LET loss == loss_fn(params, features)
    IN [result |-> StepOk(loss),
        params |-> COptimizer_step(params, backward(params, features))]

\* The outcomes of the constraint of a trust-region step.
Constraints == {"within", "violated", "NaN"}

\* TrustRegionOptimizer::trust_region_backward_step: an error leaves the
\* parameters as they were; a line search that finds no accepted step
\* reports LossNotImproving or ConstraintViolated.
trust_region_backward_step(params, features, constraint) ==
    LET loss == loss_fn(params, features)
        gradient == backward(params, features)
    IN IF is_nan(loss) THEN [result |-> StepErr("NaNLoss"), params |-> params]
       ELSE IF constraint = "NaN"
            THEN [result |-> StepErr("NaNConstraint"), params |-> params]
       ELSE IF constraint = "violated"
            THEN [result |-> StepErr("ConstraintViolated"), params |-> params]
       ELSE IF gradient.direction = 0
            THEN [result |-> StepErr("LossNotImproving"), params |-> params]
       ELSE [result |-> StepOk(loss), params |-> params - gradient.direction]

\* The record kept of one optimizer step of an update.
StepRecord(before, features, step, opt) ==
    [before |-> before, loss |-> loss_fn(before, features), result |-> step.result,
     after |-> step.params, warned |-> opt.warned, panicked |-> opt.panicked]

UpdateState(params) ==
    [params |-> params, panicked |-> FALSE, warnings |-> 0, logged |-> << >>,
     steps |-> << >>]

\* GradOptRule::update_external_critic: optimizer_iters steps of the
\* optimizer, each passed through opt_expect_ok_log and logged in a group
\* under the scope "step"; the first and last loss are logged as well.
RECURSIVE GradOptRule_update_external_critic(_, _, _, _)
GradOptRule_update_external_critic(st, features, optimizer_iters, i) ==
    IF i >= optimizer_iters \/ st.panicked THEN st
    ELSE LET step == COptimizer_backward_step(st.params, features)
             opt_loss == opt_expect_ok_log(step.result)
             step_logger == (IF is_some(opt_loss.value) THEN << "step/loss" >> ELSE << >>)
                            \o << "step/count", "step/time" >>
             rule_logger == IF is_some(opt_loss.value) /\ i = 0 THEN << "loss_initial" >>
                            ELSE IF is_some(opt_loss.value) /\ i = optimizer_iters - 1
                                 THEN << "loss_final" >>
                                 ELSE << >>
         IN GradOptRule_update_external_critic(
                [params |-> step.params,
                 panicked |-> opt_loss.panicked,
                 warnings |-> st.warnings + (IF opt_loss.warned THEN 1 ELSE 0),
                 logged |-> IF opt_loss.panicked THEN st.logged
                            ELSE st.logged \o step_logger \o rule_logger,
                 steps |-> Append(st.steps,
                                  StepRecord(st.params, features, step, opt_loss))],
                features, optimizer_iters, i + 1)

\* The trust-region policy update: one trust-region step, passed through
\* opt_expect_ok_log.
TrpoPolicyUpdate_update_policy(st, features, constraint) ==
    LET step == trust_region_backward_step(st.params, features, constraint)
        opt_loss == opt_expect_ok_log(step.result)
    IN [params |-> step.params,
        panicked |-> opt_loss.panicked,
        warnings |-> st.warnings + (IF opt_loss.warned THEN 1 ELSE 0),
        logged |-> IF is_some(opt_loss.value) THEN << "loss" >> ELSE << >>,
        steps |-> << StepRecord(st.params, features, step, opt_loss) >>]

\* ------------------------------------------------------------------------
\* Finite spaces (spaces/finite.rs, index.rs, singleton.rs, product.rs)
\* ------------------------------------------------------------------------
MaxSize == 4
MaxArity == 3
IndexSlack == 2

\* IndexSpace { size }, SingletonSpace and ProductSpace { inner_spaces }; the
\* product of no space is the unit ().
IndexSpace(size) == [kind |-> "index", size |-> size, inner_spaces |-> << >>]
SingletonSpace == [kind |-> "singleton", size |-> 1, inner_spaces |-> << >>]
ProductSpace(inner_spaces) == [kind |-> "product", size |-> 0, inner_spaces |-> inner_spaces]

\* The element () of SingletonSpace and of the unit.
UnitElement == << >>

ComponentSpaces == {IndexSpace(n) : n \in 0 .. MaxSize} \cup {SingletonSpace}

RECURSIVE TuplesOf(_, _)
TuplesOf(S, n) ==
    IF n = 0 THEN {<< >>} ELSE {<< h >> \o t : h \in S, t \in TuplesOf(S, n - 1)}

FiniteSpaces ==
    ComponentSpaces
    \cup {ProductSpace(inner) : inner \in UNION {TuplesOf(ComponentSpaces, n) : n \in 0 .. MaxArity}}

\* The outcome of a call: a value, or a panic.
Returned(value) == [panicked |-> FALSE, value |-> value]
Panicked == [panicked |-> TRUE, value |-> None]

RECURSIVE FiniteSpace_size(_)
RECURSIVE Tuple_size(_, _)
\* FiniteSpaceForTuples::size: the product of the sizes of the components.
Tuple_size(inner_spaces, k) ==
    IF k > Len(inner_spaces) THEN 1
    ELSE FiniteSpace_size(inner_spaces[k]) * Tuple_size(inner_spaces, k + 1)

\* FiniteSpace::size
FiniteSpace_size(space) ==
    IF space.kind = "index" THEN space.size
    ELSE IF space.kind = "singleton" THEN 1
    ELSE Tuple_size(space.inner_spaces, 1)

RECURSIVE Space_elements(_)
RECURSIVE Tuple_elements(_, _)
\* SpaceForTuples::contains: every component contains its part.
Tuple_elements(inner_spaces, k) ==
    IF k > Len(inner_spaces) THEN {<< >>}
    ELSE {<< h >> \o t : h \in Space_elements(inner_spaces[k]),
                         t \in Tuple_elements(inner_spaces, k + 1)}

\* Space::contains, as the set of the elements contained.
Space_elements(space) ==
    IF space.kind = "index" THEN 0 .. space.size - 1
    ELSE IF space.kind = "singleton" THEN {UnitElement}
    ELSE Tuple_elements(space.inner_spaces, 1)

RECURSIVE FiniteSpace_to_index(_, _)
RECURSIVE Tuple_to_index(_, _, _, _)
\* Variant: index += to_index of the part; index *= size.
RECURSIVE Tuple_to_index_adds_first(_, _, _, _)
Tuple_to_index_adds_first(inner_spaces, element, k, index) ==
    IF k > Len(inner_spaces) THEN index
    ELSE Tuple_to_index_adds_first(inner_spaces, element, k + 1,
                                   (index + FiniteSpace_to_index(inner_spaces[k], element[k]))
                                   * FiniteSpace_size(inner_spaces[k]))

\* FiniteSpaceForTuples::to_index: from the first component to the last,
\* index *= size; index += to_index of the part.
Tuple_to_index(inner_spaces, element, k, index) ==
    IF k > Len(inner_spaces) THEN index
    ELSE Tuple_to_index(inner_spaces, element, k + 1,
                        index * FiniteSpace_size(inner_spaces[k])
                        + FiniteSpace_to_index(inner_spaces[k], element[k]))

\* FiniteSpace::to_index
FiniteSpace_to_index(space, element) ==
    IF space.kind = "index" THEN element
    ELSE IF space.kind = "singleton" THEN 0
    ELSE Tuple_to_index(space.inner_spaces, element, 1, 0)

\* Variant: the parts are taken from the first component to the last.
RECURSIVE Tuple_split_indices_forward(_, _, _, _)
Tuple_split_indices_forward(inner_spaces, k, index, indices) ==
    LET j == Len(inner_spaces) + 1 - k
    IN IF k < 1 THEN [panicked |-> FALSE, index |-> index, indices |-> indices]
       ELSE LET size == FiniteSpace_size(inner_spaces[j])
            IN IF size = 0 THEN [panicked |-> TRUE, index |-> index, indices |-> indices]
               ELSE Tuple_split_indices_forward(inner_spaces, k - 1, index \div size,
                                                [indices EXCEPT ![j] = index % size])

\* The loop of FiniteSpaceForTuples::from_index: from the last component to
\* the first, index_part = index % size; index /= size. The remainder of a
\* division by zero panics.
RECURSIVE Tuple_split_indices(_, _, _, _)
Tuple_split_indices(inner_spaces, k, index, indices) ==
    IF k < 1 THEN [panicked |-> FALSE, index |-> index, indices |-> indices]
    ELSE LET size == FiniteSpace_size(inner_spaces[k])
         IN IF size = 0 THEN [panicked |-> TRUE, index |-> index, indices |-> indices]
            ELSE Tuple_split_indices(inner_spaces, k - 1, index \div size,
                                     [indices EXCEPT ![k] = index % size])

RECURSIVE FiniteSpace_from_index(_, _)
RECURSIVE Tuple_from_indices(_, _, _, _)
\* The last line of FiniteSpaceForTuples::from_index: from_index of every
\* part, in order; the first part without element ends the call with None.
Tuple_from_indices(inner_spaces, indices, k, element) ==
    IF k > Len(inner_spaces) THEN Returned(Some(element))
    ELSE LET part == FiniteSpace_from_index(inner_spaces[k], indices[k])
         IN IF part.panicked THEN Panicked
            ELSE IF part.value = None THEN Returned(None)
            ELSE Tuple_from_indices(inner_spaces, indices, k + 1,
                                    Append(element, unwrap(part.value)))

\* FiniteSpaceForTuples::from_index, for () and for tuples.
Tuple_from_index(inner_spaces, index) ==
    IF inner_spaces = << >>
    THEN IF index = 0 THEN Returned(Some(UnitElement)) ELSE Returned(None)
    ELSE LET split == Tuple_split_indices(inner_spaces, Len(inner_spaces), index,
                                          [k \in 1 .. Len(inner_spaces) |-> 0])
         IN IF split.panicked THEN Panicked
            ELSE IF split.index # 0 THEN Returned(None)
            ELSE Tuple_from_indices(inner_spaces, split.indices, 1, << >>)

\* FiniteSpace::from_index
FiniteSpace_from_index(space, index) ==
    IF space.kind = "index"
    THEN IF index >= space.size THEN Returned(None) ELSE Returned(Some(index))
    ELSE IF space.kind = "singleton"
    THEN IF index = 0 THEN Returned(Some(UnitElement)) ELSE Returned(None)
    ELSE Tuple_from_index(space.inner_spaces, index)

\* ------------------------------------------------------------------------
\* State
\* ------------------------------------------------------------------------
\* ------------------------------------------------------------------------
\* PairAgent, RemoteAgent and its worker closure (simulation/pair.rs)
\* ------------------------------------------------------------------------
MaxRemoteCalls == 3

\* The two agents of a PairAgent, and sample observations.
Remotes == {1, 2}
RemoteObs == {0, 1}

\* FullStep of one agent.
FullStep(observation, act, reward, next) ==
    [observation |-> observation, action |-> act, reward |-> reward, next |-> next]

NoStep == FullStep(0, 0, 0, Terminate)

\* enum Message { Act(O), Reset, Update(FullStep) }
Message_Act(observation) == [kind |-> "Act", obs |-> observation, step |-> NoStep]
Message_Reset == [kind |-> "Reset", obs |-> 0, step |-> NoStep]
Message_Update(step) == [kind |-> "Update", obs |-> 0, step |-> step]

\* The wrapped agent: its state is every call it has processed, in order,
\* and the action it computes may depend on all of them and on the
\* observation.
WrappedAgent_new == [history |-> << >>]

WrappedAgent_act(agent, observation) ==
    [agent |-> [history |-> Append(agent.history, Message_Act(observation))],
     action |-> Some([seen |-> agent.history, obs |-> observation])]

WrappedAgent_reset(agent) == [history |-> Append(agent.history, Message_Reset)]

WrappedAgent_update(agent, step) ==
    [history |-> Append(agent.history, Message_Update(step))]

\* PairAgent::update: the joint step is split into one step per agent, with
\* the same reward and the same kind of successor.
PairAgent_split(step, i) ==
    FullStep(step.observation[i], step.action[i], step.reward,
             IF step.next[1] = "Terminate" THEN Terminate
             ELSE << step.next[1], step.next[2][i] >>)

\* The calls of a PairAgent.
PairCall(kind, observation, step) == [kind |-> kind, obs |-> observation, step |-> step]

NoPairStep == FullStep(<< 0, 0 >>, << 0, 0 >>, 0, Terminate)

PairSteps ==
    {FullStep(<< 0, 1 >>, << 1, 0 >>, 1, next) :
        next \in {Continue(<< 1, 0 >>), Terminate, Interrupt(<< 0, 1 >>)}}

\* RemoteAgent::act / reset / update: the message sent for a call of agent i.
RemoteAgent_message(call, i) ==
    IF call.kind = "act" THEN Message_Act(call.obs[i])
    ELSE IF call.kind = "reset" THEN Message_Reset
    ELSE Message_Update(PairAgent_split(call.step, i))

\* The same call made on the wrapped agent itself.
Direct_call(agent, call, i) ==
    IF call.kind = "act" THEN WrappedAgent_act(agent, call.obs[i])
    ELSE IF call.kind = "reset"
    THEN [agent |-> WrappedAgent_reset(agent), action |-> None]
    ELSE [agent |-> WrappedAgent_update(agent, PairAgent_split(call.step, i)),
          action |-> None]

\* Variant: the worker ignores Reset.
worker_handle_skips_reset(agent, msg) ==
    IF msg.kind = "Act" THEN WrappedAgent_act(agent, msg.obs)
    ELSE IF msg.kind = "Reset" THEN [agent |-> agent, action |-> None]
    ELSE [agent |-> WrappedAgent_update(agent, msg.step), action |-> None]

\* The match of the worker closure on a received message.
worker_handle(agent, msg) ==
    IF msg.kind = "Act" THEN WrappedAgent_act(agent, msg.obs)
    ELSE IF msg.kind = "Reset"
    THEN [agent |-> WrappedAgent_reset(agent), action |-> None]
    ELSE [agent |-> WrappedAgent_update(agent, msg.step), action |-> None]

\* Variant: the worker never sends the action back.
worker_next_pc_never_replies(msg) == "recv"

\* After a message: Act sends the action on the action channel, the other
\* two go back to receiving.
worker_next_pc(msg) == IF msg.kind = "Act" THEN "send" ELSE "recv"

\* RemoteAgent::from_agent: the worker closure as spawned, about to receive.
RemoteWorker_new(agent) == [pc |-> "recv", agent |-> agent, msg |-> None, action |-> None]

\* The owner of the two RemoteAgent handles, between calls.
RemoteOwner_new == [pc |-> "ready", call |-> None, i |-> 0, actions |-> << >>, calls |-> 0]

VARIABLES
    wrapper,            \* None, or Some(episodes_per_trial) of TrialEpisodeLimit
    pc,                 \* position of the simulation loop: "act", "step", "start", "panic"
    meta_state,         \* MetaState of the current trial
    remaining_episodes, \* second component of the wrapped state (0 when unwrapped)
    agent_state,        \* InnerEpisodeState of the ResettingMetaAgent
    obs,                \* Option: the observation given to the latest act call of the trial
    prev_obs,           \* Option: the observation given to the act call before that
    action,             \* Option: the action returned by the latest act call
    step_info,          \* Option: record of the latest environment step of the trial
    act_info,           \* Option: record of the latest act call of the trial
    episodes_ended,     \* inner episodes ended in the current trial (limited trials only)
    serial_batch_agent, \* SerialBatchAgent { agent: BatchedUpdates, history }
    stream_obs,         \* observation of the environment feeding the batch agent
    pushed,             \* steps given to update since the last batch update
    upd_info,           \* Option: record of the latest SerialBatchAgent::update call
    batch_info,         \* Option: record of a batch_update call made on the wrapped agent
    num_workers,        \* num_workers of run_agent_multithread
    run_pc,             \* position of run_agent_multithread
    joined,             \* worker threads joined so far
    worker_threads,     \* the spawned worker threads, in spawn order
    agent_manager,      \* the manager agent
    sink,               \* the logger at the bottom of the chain of wrappers
    wrappers,           \* the ScopedLogger / LogGroup wrappers alive, outermost first
    log_ops,            \* operations made on the logger so far
    log_info,           \* Option: record of the latest operation on the logger
    meta_agent,         \* the ResettingMetaAgent behind its Arc
    opt_rule,           \* the update rule running: "critic" or "policy"
    opt_params,         \* the parameter under optimization
    optimizer_iters,    \* optimizer_iters of GradOptRule
    opt_updates,        \* updates made so far
    opt_panicked,       \* an update has panicked
    opt_info,           \* Option: record of the latest update
    space,              \* the finite space in use
    space_info,         \* Option: record of the latest call on the space
    remote_owner,       \* the thread that owns the PairAgent: position, call, replies
    remote_workers,     \* per agent: the worker thread's position and wrapped agent
    remote_info         \* the same calls made directly: agents and expected actions

meta_vars == << wrapper, pc, meta_state, remaining_episodes, agent_state, obs, prev_obs,
                action, step_info, act_info, episodes_ended, meta_agent >>

batch_vars == << serial_batch_agent, stream_obs, pushed, upd_info, batch_info >>

trainer_vars == << num_workers, run_pc, joined, worker_threads, agent_manager >>

log_vars == << sink, wrappers, log_ops, log_info >>

opt_vars == << opt_rule, opt_params, optimizer_iters, opt_updates, opt_panicked, opt_info >>

space_vars == << space, space_info >>

remote_vars == << remote_owner, remote_workers, remote_info >>

vars == << meta_vars, batch_vars, trainer_vars, log_vars, opt_vars, space_vars, remote_vars >>

not_remote_vars == << meta_vars, batch_vars, trainer_vars, log_vars, opt_vars, space_vars >>

\* The state outside each part.
not_meta_vars == << batch_vars, trainer_vars, log_vars, opt_vars, space_vars, remote_vars >>
not_batch_vars == << meta_vars, trainer_vars, log_vars, opt_vars, space_vars, remote_vars >>
not_trainer_vars == << meta_vars, batch_vars, log_vars, opt_vars, space_vars, remote_vars >>
not_log_vars == << meta_vars, batch_vars, trainer_vars, opt_vars, space_vars, remote_vars >>
not_opt_vars == << meta_vars, batch_vars, trainer_vars, log_vars, space_vars, remote_vars >>
not_space_vars == << meta_vars, batch_vars, trainer_vars, log_vars, opt_vars, remote_vars >>

EnvInitRng == [env : ActionSpace, init : InnerStates]
StepRng == [init : InnerStates, tag : SuccessorTags, s : InnerStates]
ActRng == [act : ActionSpace, some : ActionSpace]

limited == is_some(wrapper)

\* The environment under simulation: MetaEnv, wrapped or not.
Env_initial_state(r) ==
    IF limited THEN TrialEpisodeLimit_initial_state(unwrap(wrapper), r)
    ELSE << MetaEnv_initial_state(r), 0 >>

Env_observe(state) ==
    IF limited THEN TrialEpisodeLimit_observe(state) ELSE MetaEnv_observe(state[1])

Env_step(state, a, r) ==
    IF limited THEN TrialEpisodeLimit_step(state, a, r)
    ELSE LET res == MetaEnv_step(state[1], a, r)
             suc == res.successor
         IN [successor |-> IF suc[1] = "Terminate" THEN Terminate
                           ELSE << suc[1], << suc[2], state[2] >> >>,
             feedback |-> res.feedback, inner_steps |-> res.inner_steps]

\* Values of the variables of the part a specification does not run.
MetaIdle ==
    /\ wrapper = None
    /\ pc = "idle"
    /\ meta_state = MetaEnv_initial_state([env |-> 0, init |-> 0])
    /\ remaining_episodes = 0
    /\ agent_state = ResettingMetaAgent_initial_state([act |-> 0, some |-> 0])
    /\ obs = None
    /\ prev_obs = None
    /\ action = None
    /\ step_info = None
    /\ act_info = None
    /\ episodes_ended = 0
    /\ meta_agent = ResettingMetaAgent_from_meta_env

BatchIdle ==
    /\ serial_batch_agent = [agent |-> [agent |-> build_sync_agent],
                             history |-> build_history_buffer(0, 0)]
    /\ stream_obs = 0
    /\ pushed = << >>
    /\ upd_info = None
    /\ batch_info = None

TrainerIdle ==
    /\ num_workers = 0
    /\ run_pc = "idle"
    /\ joined = 0
    /\ worker_threads = << >>
    /\ agent_manager = Manager_new(0)

LogIdle ==
    /\ sink = Sink_new
    /\ wrappers = << >>
    /\ log_ops = 0
    /\ log_info = None

OptIdle ==
    /\ opt_rule = "idle"
    /\ opt_params = 0
    /\ optimizer_iters = 0
    /\ opt_updates = 0
    /\ opt_panicked = FALSE
    /\ opt_info = None

SpaceIdle ==
    /\ space = ProductSpace(<< >>)
    /\ space_info = None

RemoteIdle ==
    /\ remote_owner = [RemoteOwner_new EXCEPT !.pc = "idle"]
    /\ remote_workers = << >>
    /\ remote_info = [direct |-> << >>, expected |-> None]

\* ------------------------------------------------------------------------
\* The simulation loop: observe, act, step; a new trial after the episode
\* of the (meta) environment ended.
\* ------------------------------------------------------------------------
StartTrial(re, ra) ==
    LET s == Env_initial_state(re)
    IN /\ meta_state' = s[1]
       /\ remaining_episodes' = s[2]
       /\ agent_state' = ResettingMetaAgent_initial_state(ra)
       /\ obs' = None
       /\ prev_obs' = None
       /\ action' = None
       /\ step_info' = None
       /\ act_info' = None
       /\ episodes_ended' = 0
       /\ pc' = IF limited /\ TrialEpisodeLimit_initial_state_panics(unwrap(wrapper))
                THEN "start_panic" ELSE "act"

\* The position after construction and the start of the first trial: a
\* wrapper built by new panics there for 0 episodes per trial, one built as
\* a literal panics in initial_state.
InitPc ==
    IF ~limited THEN {"act"}
    ELSE (IF TrialEpisodeLimit_new_panics(unwrap(wrapper)) THEN {"new_panic"} ELSE {"act"})
         \cup (IF TrialEpisodeLimit_initial_state_panics(unwrap(wrapper))
               THEN {"start_panic"} ELSE {"act"})

Init ==
    /\ wrapper \in {None} \cup {Some(n) : n \in 0 .. MaxEpisodes}
    /\ \E re \in EnvInitRng, ra \in ActRng :
         LET s == Env_initial_state(re)
         IN /\ meta_state = s[1]
            /\ remaining_episodes = s[2]
            /\ agent_state = ResettingMetaAgent_initial_state(ra)
    /\ obs = None
    /\ prev_obs = None
    /\ action = None
    /\ step_info = None
    /\ act_info = None
    /\ episodes_ended = 0
    /\ meta_agent = ResettingMetaAgent_from_meta_env
    /\ pc \in InitPc
    /\ BatchIdle
    /\ TrainerIdle
    /\ LogIdle
    /\ OptIdle
    /\ SpaceIdle
    /\ RemoteIdle

Act ==
    /\ pc = "act"
    /\ \E r \in ActRng :
         LET o == Env_observe(<< meta_state, remaining_episodes >>)
             res == ResettingMetaAgent_act(agent_state, o, r)
         IN /\ obs' = Some(o)
            /\ prev_obs' = obs
            /\ agent_state' = res.state
            /\ action' = IF res.panic THEN None ELSE Some(res.action)
            /\ act_info' = Some([panic |-> res.panic,
                                 updates |-> res.updates,
                                 inner_acts |-> res.inner_acts])
            /\ pc' = IF res.panic THEN "panic" ELSE "step"
    /\ meta_agent' = ResettingMetaAgent_actor(meta_agent, "Evaluation")
    /\ UNCHANGED << wrapper, meta_state, remaining_episodes, step_info, episodes_ended >>
    /\ UNCHANGED not_meta_vars

Step ==
    /\ pc = "step"
    /\ \E r \in StepRng :
         LET state == << meta_state, remaining_episodes >>
             res == Env_step(state, unwrap(action), r)
             suc == res.successor
             pre_done == inner_episode_done(meta_state)
             ended == ~pre_done /\ r.tag # "Continue"
         IN /\ meta_state' = IF suc[1] = "Terminate" THEN meta_state ELSE suc[2][1]
            /\ remaining_episodes' =
                   IF suc[1] = "Terminate" THEN remaining_episodes ELSE suc[2][2]
            /\ step_info' = Some([pre_done |-> pre_done,
                                  pre_remaining |-> remaining_episodes,
                                  action |-> unwrap(action),
                                  ended |-> ended,
                                  tag |-> suc[1],
                                  feedback |-> res.feedback,
                                  inner_steps |-> res.inner_steps])
            /\ episodes_ended' =
                   IF limited /\ ended THEN episodes_ended + 1 ELSE episodes_ended
            /\ pc' = IF suc[1] = "Continue" THEN "act" ELSE "start"
    /\ UNCHANGED << wrapper, agent_state, obs, prev_obs, action, act_info, meta_agent >>
    /\ UNCHANGED not_meta_vars

Reset ==
    /\ pc \in {"start", "updated"}
    /\ \E re \in EnvInitRng, ra \in ActRng : StartTrial(re, ra)
    /\ UNCHANGED << wrapper, meta_agent >>
    /\ UNCHANGED not_meta_vars

\* The batch update of the meta-level agent, made after a trial with the
\* buffer the agent asked for.
BatchUpdate ==
    /\ pc = "start"
    /\ meta_agent' = ResettingMetaAgent_batch_update(
                          meta_agent, << ResettingMetaAgent_buffer(meta_agent) >>)
    /\ pc' = "updated"
    /\ UNCHANGED << wrapper, meta_state, remaining_episodes, agent_state, obs, prev_obs,
                    action, step_info, act_info, episodes_ended >>
    /\ UNCHANGED not_meta_vars

Next == Act \/ Step \/ Reset \/ BatchUpdate

Spec == Init /\ [][Next]_vars

\* ------------------------------------------------------------------------
\* A SerialBatchAgent fed the steps of an environment
\* ------------------------------------------------------------------------
\* The feeding environment rewards action 0 and starts its episodes anywhere.
Stream_reward(a) == IF a = 0 THEN 1 ELSE 0

StreamNext == {Terminate} \cup {<< t, o >> : t \in {"Continue", "Interrupt"}, o \in StreamObs}

InitBatch ==
    /\ MetaIdle
    /\ TrainerIdle
    /\ LogIdle
    /\ OptIdle
    /\ SpaceIdle
    /\ RemoteIdle
    /\ \E hard \in 0 .. MaxHard, soft \in 0 .. MaxHard :
         /\ soft <= hard
         /\ serial_batch_agent = [agent |-> [agent |-> build_sync_agent],
                                  history |-> build_history_buffer(soft, hard)]
    /\ stream_obs \in StreamObs
    /\ pushed = << >>
    /\ upd_info = None
    /\ batch_info = None

Update ==
    /\ \E a \in ActionSpace, next \in StreamNext :
       \E o0 \in IF next[1] = "Continue" THEN {next[2]} ELSE StreamObs :
         LET step == [observation |-> stream_obs, action |-> a,
                      reward |-> Stream_reward(a), next |-> next]
             res == SerialBatchAgent_update(serial_batch_agent, step)
             all == Append(pushed, into_partial(step))
         IN /\ serial_batch_agent' = res.self
            /\ stream_obs' = o0
            /\ pushed' = IF res.batch_updates # << >> THEN << >> ELSE all
            /\ upd_info' = Some([step |-> step,
                                 pushed |-> all,
                                 full |-> res.full,
                                 batch_updates |-> res.batch_updates])
            /\ batch_info' = None
    /\ UNCHANGED not_batch_vars

\* The steps a history buffer given to batch_update may hold, and such
\* buffers of up to MaxBufferSteps steps.
BufferSteps ==
    {[observation |-> o, action |-> 0, reward |-> Stream_reward(0), next |-> next] :
        o \in StreamObs, next \in {Continue(<< >>), Terminate, Interrupt(0)}}

RECURSIVE StepSeqs(_)
StepSeqs(n) ==
    IF n = 0 THEN {<< >>}
    ELSE StepSeqs(n - 1)
         \cup {Append(q, step) : q \in {t \in StepSeqs(n - 1) : Len(t) = n - 1},
                                  step \in BufferSteps}

\* BatchedUpdates::batch_update called with two history buffers, before the
\* agent received any step. The call reads neither the history of the
\* SerialBatchAgent nor the feeding environment, so it is made for one
\* choice of them.
BatchUpdateBuffers ==
    /\ upd_info = None
    /\ batch_info = None
    /\ serial_batch_agent.history = build_history_buffer(0, 0)
    /\ stream_obs = 0
    /\ \E first \in StepSeqs(MaxBufferSteps), second \in StepSeqs(MaxBufferSteps) :
         LET buffers == << [build_history_buffer(0, 0) EXCEPT !.steps = first],
                           [build_history_buffer(0, 0) EXCEPT !.steps = second] >>
             res == BatchedUpdates_batch_update(serial_batch_agent.agent, buffers)
         IN /\ serial_batch_agent' = [serial_batch_agent EXCEPT !.agent = res.self]
            /\ batch_info' = Some([buffers |-> buffers,
                                   after |-> res.buffers,
                                   drained |-> res.drained,
                                   delivered |-> res.delivered])
    /\ UNCHANGED << stream_obs, pushed, upd_info >>
    /\ UNCHANGED not_batch_vars

NextBatch == Update \/ BatchUpdateBuffers

SpecBatch == InitBatch /\ [][NextBatch]_vars

\* ------------------------------------------------------------------------
\* run_agent_multithread: the workers are spawned one by one and start their
\* rollouts at once; the manager runs on the calling thread; all threads are
\* joined in spawn order.
\* ------------------------------------------------------------------------
InitTrainer ==
    /\ MetaIdle
    /\ BatchIdle
    /\ LogIdle
    /\ OptIdle
    /\ SpaceIdle
    /\ RemoteIdle
    /\ num_workers \in 1 .. MaxWorkers
    /\ run_pc = "spawn"
    /\ joined = 0
    /\ worker_threads = << >>
    /\ \E params \in Params : agent_manager = Manager_new(params)

\* for i in 0..num_workers: make_worker and thread::spawn.
Spawn ==
    /\ run_pc = "spawn"
    /\ LET i == Len(worker_threads)
       IN /\ worker_threads' = Append(worker_threads, Worker_new(i, agent_manager.params))
          /\ run_pc' = IF i + 1 = num_workers THEN "run" ELSE "spawn"
    /\ UNCHANGED << num_workers, joined, agent_manager >>
    /\ UNCHANGED not_trainer_vars

\* One iteration of a worker's run_agent: act, step the environment and
\* update, which pushes the step and hands the buffer over once it is full.
WorkerStep(w) ==
    /\ worker_threads[w].status = "running"
    /\ LET t == worker_threads[w]
           step == Worker_step(t.seed, t.snapshot, Len(t.buffer.steps))
           res == SerialBuffer_push(t.buffer, step)
       IN IF ~res.full
          THEN /\ worker_threads' = [worker_threads EXCEPT ![w].buffer = res.buffer]
               /\ UNCHANGED agent_manager
          ELSE IF agent_manager.status = "stopped"
          THEN /\ worker_threads' = [worker_threads EXCEPT ![w].status = "finished",
                                                            ![w].buffer = Worker_buffer]
               /\ UNCHANGED agent_manager
          ELSE /\ worker_threads' = [worker_threads EXCEPT ![w].status = "waiting",
                                                            ![w].buffer = Worker_buffer]
               /\ agent_manager' = [agent_manager EXCEPT !.inbox =
                                       Append(@, [worker |-> w, buffer |-> res.buffer])]
    /\ UNCHANGED << num_workers, run_pc, joined >>
    /\ UNCHANGED not_trainer_vars

\* A waiting worker receives the parameters of the finished update and
\* starts its next round.
WorkerResume(w) ==
    /\ worker_threads[w].status = "waiting"
    /\ agent_manager.status = "collect"
    /\ agent_manager.round > worker_threads[w].round
    /\ worker_threads' = [worker_threads EXCEPT ![w].status = "running",
                                                ![w].round = agent_manager.round,
                                                ![w].snapshot = agent_manager.params]
    /\ UNCHANGED << num_workers, run_pc, joined, agent_manager >>
    /\ UNCHANGED not_trainer_vars

\* A waiting worker ends once the manager stopped.
WorkerFinish(w) ==
    /\ worker_threads[w].status = "waiting"
    /\ agent_manager.status = "stopped"
    /\ worker_threads' = [worker_threads EXCEPT ![w].status = "finished"]
    /\ UNCHANGED << num_workers, run_pc, joined, agent_manager >>
    /\ UNCHANGED not_trainer_vars

\* A worker thread panics (build_env(..).unwrap(), or anywhere in its rollout).
WorkerPanic(w) ==
    /\ worker_threads[w].status = "running"
    /\ worker_threads' = [worker_threads EXCEPT ![w].status = "panicked"]
    /\ UNCHANGED << num_workers, run_pc, joined, agent_manager >>
    /\ UNCHANGED not_trainer_vars

\* agent_manager.run: the manager takes the buffers of the round and starts
\* the batch update.
ManagerBeginUpdate ==
    /\ run_pc = "run"
    /\ agent_manager.status = "collect"
    /\ Manager_round_complete(agent_manager.inbox, num_workers)
    /\ agent_manager' = [agent_manager EXCEPT
                            !.status = "update",
                            !.buffers = Manager_buffers(agent_manager.inbox, num_workers),
                            !.inbox = << >>,
                            !.updates = @ + 1]
    /\ UNCHANGED << num_workers, run_pc, joined, worker_threads >>
    /\ UNCHANGED not_trainer_vars

\* agent_manager.run: the batch update ends; the new parameters are
\* published, and run returns after the last period.
ManagerEndUpdate ==
    /\ run_pc = "run"
    /\ agent_manager.status = "update"
    /\ LET params == Manager_batch_update(agent_manager.params, agent_manager.buffers, 1)
           last == agent_manager.round + 1 >= NumPeriods
       IN /\ agent_manager' = [agent_manager EXCEPT
                                  !.status = IF last THEN "stopped" ELSE "collect",
                                  !.params = params,
                                  !.round = @ + 1,
                                  !.buffers = << >>,
                                  !.trajectory = Append(@, params)]
          /\ run_pc' = IF last THEN "join" ELSE "run"
    /\ UNCHANGED << num_workers, joined, worker_threads >>
    /\ UNCHANGED not_trainer_vars

\* agent_manager.run: a worker is gone; run returns.
ManagerDisconnected ==
    /\ run_pc = "run"
    /\ agent_manager.status = "collect"
    /\ \E w \in 1 .. Len(worker_threads) : worker_threads[w].status = "panicked"
    /\ agent_manager' = [agent_manager EXCEPT !.status = "stopped"]
    /\ run_pc' = "join"
    /\ UNCHANGED << num_workers, joined, worker_threads >>
    /\ UNCHANGED not_trainer_vars

\* for thread in worker_threads: thread.join().unwrap().
Join ==
    /\ run_pc = "join"
    /\ joined < num_workers
    /\ worker_threads[joined + 1].status \in {"finished", "panicked"}
    /\ IF join_unwrap(worker_threads[joined + 1].status) = "panic"
       THEN /\ run_pc' = "aborted"
            /\ UNCHANGED joined
       ELSE /\ joined' = joined + 1
            /\ run_pc' = IF joined + 1 = num_workers THEN "returned" ELSE "join"
    /\ UNCHANGED << num_workers, worker_threads, agent_manager >>
    /\ UNCHANGED not_trainer_vars

Worker(w) == WorkerStep(w) \/ WorkerResume(w) \/ WorkerFinish(w) \/ WorkerPanic(w)

NextTrainer ==
    \/ Spawn
    \/ \E w \in 1 .. Len(worker_threads) : Worker(w)
    \/ ManagerBeginUpdate
    \/ ManagerEndUpdate
    \/ ManagerDisconnected
    \/ Join

SpecTrainer == InitTrainer /\ [][NextTrainer]_vars

\* ------------------------------------------------------------------------
\* A logger in use: wrappers are created around the current handle and
\* dropped in reverse order; every call goes through the outermost handle.
\* ------------------------------------------------------------------------
InitLog ==
    /\ MetaIdle
    /\ BatchIdle
    /\ TrainerIdle
    /\ OptIdle
    /\ SpaceIdle
    /\ RemoteIdle
    /\ sink = Sink_new
    /\ wrappers = << >>
    /\ log_ops = 0
    /\ log_info = None

\* StatsLogger::with_scope
WithScope ==
    /\ log_ops < MaxLogOps
    /\ Len(wrappers) < MaxWrappers
    /\ \E scope \in Scopes :
         /\ wrappers' = << ScopedLogger_new(scope) >> \o wrappers
         /\ log_info' = Some([op |-> "with_scope", before |-> sink])
    /\ log_ops' = log_ops + 1
    /\ UNCHANGED sink
    /\ UNCHANGED not_log_vars

\* The current handle becomes the first logger of a pair (one second logger
\* is modelled, so one pair exists at a time).
Pair ==
    /\ log_ops < MaxLogOps
    /\ Len(wrappers) < MaxWrappers
    /\ \A i \in 1 .. Len(wrappers) : wrappers[i].kind # "pair"
    /\ wrappers' = << Pair_new >> \o wrappers
    /\ log_info' = Some([op |-> "pair", before |-> sink])
    /\ log_ops' = log_ops + 1
    /\ UNCHANGED sink
    /\ UNCHANGED not_log_vars

\* StatsLogger::group
Group ==
    /\ log_ops < MaxLogOps
    /\ Len(wrappers) < MaxWrappers
    /\ LET res == LogGroup_new(wrappers, sink)
       IN /\ wrappers' = res.wrappers
          /\ sink' = res.sink
    /\ log_info' = Some([op |-> "group", before |-> sink])
    /\ log_ops' = log_ops + 1
    /\ UNCHANGED not_log_vars

\* StatsLogger::log on the outermost handle
Log ==
    /\ log_ops < MaxLogOps
    /\ \E id \in Ids, value \in LogValues :
         LET res == StatsLogger_log(wrappers, sink, id, value)
         IN /\ sink' = res.sink
            /\ log_info' = Some([op |-> "log", before |-> sink, id |-> id,
                                 value |-> value, result |-> res.result])
    /\ log_ops' = log_ops + 1
    /\ UNCHANGED wrappers
    /\ UNCHANGED not_log_vars

\* StatsLogger::flush on the outermost handle
Flush ==
    /\ log_ops < MaxLogOps
    /\ sink' = Logger_flush(wrappers, 1, sink)
    /\ log_info' = Some([op |-> "flush", before |-> sink])
    /\ log_ops' = log_ops + 1
    /\ UNCHANGED wrappers
    /\ UNCHANGED not_log_vars

\* The outermost handle goes out of scope.
Drop ==
    /\ log_ops < MaxLogOps
    /\ wrappers # << >>
    /\ IF wrappers[1].kind = "group"
       THEN LET res == LogGroup_drop(wrappers, sink)
            IN /\ wrappers' = res.wrappers
               /\ sink' = res.sink
       ELSE /\ wrappers' = Tail(wrappers)
            /\ UNCHANGED sink
    /\ log_info' = Some([op |-> "drop", before |-> sink, dropped |-> wrappers[1]])
    /\ log_ops' = log_ops + 1
    /\ UNCHANGED not_log_vars

NextLog == WithScope \/ Pair \/ Group \/ Log \/ Flush \/ Drop

SpecLog == InitLog /\ [][NextLog]_vars

\* ------------------------------------------------------------------------
\* SpecOpt: updates of one parameter by the critic rule (GradOptRule with a
\* COptimizer) or by the trust-region policy rule.
\* ------------------------------------------------------------------------
InitOpt ==
    /\ MetaIdle
    /\ BatchIdle
    /\ TrainerIdle
    /\ LogIdle
    /\ SpaceIdle
    /\ RemoteIdle
    /\ opt_rule \in {"critic", "policy"}
    /\ opt_params \in ParamValues
    /\ optimizer_iters \in 1 .. MaxOptimizerIters
    /\ opt_updates = 0
    /\ opt_panicked = FALSE
    /\ opt_info = None

\* The state after an update that ended in state st.
AfterUpdate(st, features) ==
    /\ opt_params' = st.params
    /\ opt_panicked' = st.panicked
    /\ opt_updates' = opt_updates + 1
    /\ opt_info' = Some([rule |-> opt_rule, features |-> features,
                         warnings |-> st.warnings, logged |-> st.logged,
                         steps |-> st.steps])
    /\ UNCHANGED << opt_rule, optimizer_iters >>
    /\ UNCHANGED not_opt_vars

\* One call of GradOptRule::update_external_critic.
UpdateCritic ==
    /\ opt_rule = "critic"
    /\ ~opt_panicked
    /\ opt_updates < MaxUpdates
    /\ \E features \in Features :
          AfterUpdate(GradOptRule_update_external_critic(UpdateState(opt_params), features,
                                                         optimizer_iters, 0),
                      features)

\* One update of the policy by a trust-region step.
UpdatePolicy ==
    /\ opt_rule = "policy"
    /\ ~opt_panicked
    /\ opt_updates < MaxUpdates
    /\ \E features \in Features, constraint \in Constraints :
          AfterUpdate(TrpoPolicyUpdate_update_policy(UpdateState(opt_params), features,
                                                     constraint),
                      features)

NextOpt == UpdateCritic \/ UpdatePolicy

SpecOpt == InitOpt /\ [][NextOpt]_vars

\* ------------------------------------------------------------------------
\* SpecSpace: one call of to_index or from_index on a finite space (the
\* calls take &self and leave the space as it is, so every call starts from
\* the state after construction).
\* ------------------------------------------------------------------------
InitSpace ==
    /\ MetaIdle
    /\ BatchIdle
    /\ TrainerIdle
    /\ LogIdle
    /\ OptIdle
    /\ RemoteIdle
    /\ space \in FiniteSpaces
    /\ space_info = None

\* from_index of an index within or beyond the size of the space.
FromIndex ==
    /\ space_info = None
    /\ \E index \in 0 .. FiniteSpace_size(space) + IndexSlack :
          space_info' = Some([op |-> "from_index", index |-> index,
                              result |-> FiniteSpace_from_index(space, index)])
    /\ UNCHANGED space
    /\ UNCHANGED not_space_vars

\* to_index of an element of the space.
ToIndex ==
    /\ space_info = None
    /\ \E element \in Space_elements(space) :
          space_info' = Some([op |-> "to_index",
                              index |-> FiniteSpace_to_index(space, element),
                              result |-> Returned(Some(element))])
    /\ UNCHANGED space
    /\ UNCHANGED not_space_vars

NextSpace == FromIndex \/ ToIndex

SpecSpace == InitSpace /\ [][NextSpace]_vars

\* ------------------------------------------------------------------------
\* SpecRemote: the thread running PairSimulator::run_simulation calls the
\* PairAgent of two RemoteAgents; each worker thread runs its closure. Both
\* channels of a RemoteAgent have capacity 0: a send and the matching recv
\* complete together.
\* ------------------------------------------------------------------------
InitRemote ==
    /\ MetaIdle
    /\ BatchIdle
    /\ TrainerIdle
    /\ LogIdle
    /\ OptIdle
    /\ SpaceIdle
    /\ remote_owner = RemoteOwner_new
    /\ remote_workers = [i \in Remotes |-> RemoteWorker_new(WrappedAgent_new)]
    /\ remote_info = [direct |-> [i \in Remotes |-> WrappedAgent_new], expected |-> None]

\* A call on the PairAgent begins with the call on its first agent, which
\* blocks in sender.send.
owner_begin(owner, call) ==
    [pc |-> "send", call |-> Some(call), i |-> 1, actions |-> << >>,
     calls |-> owner.calls + 1]

\* The same call made on the two wrapped agents themselves, one after the
\* other, and the pair of actions an act call returns.
direct_begin(info, call) ==
    LET res == [i \in Remotes |-> Direct_call(info.direct[i], call, i)]
    IN [direct |-> [i \in Remotes |-> res[i].agent],
        expected |-> IF call.kind = "act"
                     THEN Some(<< unwrap(res[1].action), unwrap(res[2].action) >>)
                     ELSE None]

\* PairAgent::act
PairAct ==
    /\ remote_owner.pc = "ready"
    /\ remote_owner.calls < MaxRemoteCalls
    /\ \E o1 \in RemoteObs, o2 \in RemoteObs :
         LET call == PairCall("act", << o1, o2 >>, NoPairStep)
         IN /\ remote_owner' = owner_begin(remote_owner, call)
            /\ remote_info' = direct_begin(remote_info, call)
    /\ UNCHANGED remote_workers
    /\ UNCHANGED not_remote_vars

\* PairAgent::reset
PairReset ==
    /\ remote_owner.pc = "ready"
    /\ remote_owner.calls < MaxRemoteCalls
    /\ LET call == PairCall("reset", << 0, 0 >>, NoPairStep)
       IN /\ remote_owner' = owner_begin(remote_owner, call)
          /\ remote_info' = direct_begin(remote_info, call)
    /\ UNCHANGED remote_workers
    /\ UNCHANGED not_remote_vars

\* PairAgent::update
PairUpdate ==
    /\ remote_owner.pc = "ready"
    /\ remote_owner.calls < MaxRemoteCalls
    /\ \E step \in PairSteps :
         LET call == PairCall("update", << 0, 0 >>, step)
         IN /\ remote_owner' = owner_begin(remote_owner, call)
            /\ remote_info' = direct_begin(remote_info, call)
    /\ UNCHANGED remote_workers
    /\ UNCHANGED not_remote_vars

\* The owner after the call on agent i returned: the call on the second
\* agent follows the one on the first, then the PairAgent call returns.
owner_advance(owner) ==
    IF owner.i = 1 THEN [owner EXCEPT !.pc = "send", !.i = 2]
    ELSE [owner EXCEPT !.pc = "ready"]

\* sender.send(msg) of the owner meets recv_msg.recv() of worker i. reset
\* and update return here; act goes on to receiver.recv().
Rendezvous(i) ==
    /\ remote_owner.pc = "send"
    /\ remote_owner.i = i
    /\ remote_workers[i].pc = "recv"
    /\ LET msg == RemoteAgent_message(unwrap(remote_owner.call), i)
       IN /\ remote_workers' =
                [remote_workers EXCEPT ![i] = [@ EXCEPT !.pc = "handle", !.msg = Some(msg)]]
          /\ remote_owner' = IF msg.kind = "Act" THEN [remote_owner EXCEPT !.pc = "recv"]
                             ELSE owner_advance(remote_owner)
    /\ UNCHANGED remote_info
    /\ UNCHANGED not_remote_vars

\* Worker i handles the message it received.
WorkerHandle(i) ==
    /\ remote_workers[i].pc = "handle"
    /\ LET msg == unwrap(remote_workers[i].msg)
           res == worker_handle(remote_workers[i].agent, msg)
       IN remote_workers' =
            [remote_workers EXCEPT ![i] =
                [pc |-> worker_next_pc(msg), agent |-> res.agent, msg |-> None,
                 action |-> res.action]]
    /\ UNCHANGED << remote_owner, remote_info >>
    /\ UNCHANGED not_remote_vars

\* send_act.send(action).unwrap() of worker i: it meets receiver.recv() of
\* the owner, or fails and panics when the receiver is gone.
Reply(i) ==
    /\ remote_workers[i].pc = "send"
    /\ \/ remote_owner.pc = "dropped"
       \/ remote_owner.pc = "recv" /\ remote_owner.i = i
    /\ IF remote_owner.pc = "dropped"
       THEN /\ remote_workers' = [remote_workers EXCEPT ![i] = [@ EXCEPT !.pc = "panicked"]]
            /\ UNCHANGED remote_owner
       ELSE /\ remote_workers' =
                  [remote_workers EXCEPT ![i] = [@ EXCEPT !.pc = "recv", !.action = None]]
            /\ remote_owner' =
                  owner_advance([remote_owner EXCEPT
                                   !.actions = Append(@, unwrap(remote_workers[i].action))])
    /\ UNCHANGED remote_info
    /\ UNCHANGED not_remote_vars

\* run_simulation returns: the PairAgent and with it both senders and both
\* action receivers are dropped.
DropHandles ==
    /\ remote_owner.pc = "ready"
    /\ remote_owner' = [remote_owner EXCEPT !.pc = "dropped"]
    /\ UNCHANGED << remote_workers, remote_info >>
    /\ UNCHANGED not_remote_vars

\* recv_msg.recv() of worker i returns Err once the sender is dropped: the
\* loop ends and the thread terminates.
WorkerExit(i) ==
    /\ remote_workers[i].pc = "recv"
    /\ remote_owner.pc = "dropped"
    /\ remote_workers' = [remote_workers EXCEPT ![i] = [@ EXCEPT !.pc = "exit"]]
    /\ UNCHANGED << remote_owner, remote_info >>
    /\ UNCHANGED not_remote_vars

NextRemote ==
    \/ PairAct
    \/ PairReset
    \/ PairUpdate
    \/ DropHandles
    \/ \E i \in Remotes : Rendezvous(i)
    \/ \E i \in Remotes : WorkerHandle(i)
    \/ \E i \in Remotes : Reply(i)
    \/ \E i \in Remotes : WorkerExit(i)

SpecRemote == InitRemote /\ [][NextRemote]_vars

\* Each worker is a thread of its own and the scheduler runs every thread
\* that can take a step; the owner is free to make no further call.
FairRemote ==
    \A i \in Remotes :
        /\ WF_vars(Rendezvous(i))
        /\ WF_vars(WorkerHandle(i))
        /\ WF_vars(Reply(i))
        /\ WF_vars(WorkerExit(i))

SpecRemoteFair == InitRemote /\ [][NextRemote]_vars /\ FairRemote

\* ========================================================================
\* Properties
\* ========================================================================
last_step == unwrap(step_info)
last_act == unwrap(act_info)
current_obs == Env_observe(<< meta_state, remaining_episodes >>)

\* C1: with TrialEpisodeLimit(N), the counter starts at N, every step lowers
\* it by one exactly when the step ends an inner episode, the step returns
\* Interrupt exactly when the counter reaches 0, and so a trial ends with
\* Interrupt on the step that ends its N-th inner episode, every earlier
\* step returning Continue.
C1_TrialEpisodeLimit ==
    limited =>
        LET N == unwrap(wrapper)
        IN /\ remaining_episodes = N - episodes_ended
           /\ (~is_some(step_info) => remaining_episodes = N)
           /\ (is_some(step_info) =>
                 /\ remaining_episodes =
                        last_step.pre_remaining - (IF last_step.ended THEN 1 ELSE 0)
                 /\ last_step.tag \in {"Continue", "Interrupt"}
                 /\ (last_step.tag = "Interrupt") <=> (remaining_episodes = 0)
                 /\ (last_step.tag = "Interrupt") <=>
                        (last_step.ended /\ episodes_ended = N))
           /\ (pc \in {"act", "step"} => episodes_ended < N)
           /\ (pc = "start" => episodes_ended = N /\ last_step.tag = "Interrupt")

C1_Witness ==
    /\ limited
    /\ unwrap(wrapper) >= 2
    /\ pc = "start"
    /\ episodes_ended = unwrap(wrapper)

\* C2: a MetaEnv step from a state whose observation has episode_done set
\* does not call the inner environment's step, gives the same result for
\* every action under the same random draws, and leads to a state whose
\* observation has episode_done = false and prev_step = None.
C2_ActionIgnoredAfterEpisode ==
    /\ (pc = "step" /\ MetaEnv_observe(meta_state).episode_done) =>
           \A a \in ActionSpace, r \in StepRng :
               LET res == MetaEnv_step(meta_state, a, r)
                   o == MetaEnv_observe(res.successor[2])
               IN /\ res = MetaEnv_step(meta_state, unwrap(action), r)
                  /\ res.inner_steps = 0
                  /\ o.episode_done = FALSE
                  /\ o.prev_step = None
    /\ (is_some(step_info) /\ last_step.pre_done) =>
           /\ last_step.inner_steps = 0
           /\ MetaEnv_observe(meta_state).episode_done = FALSE
           /\ MetaEnv_observe(meta_state).prev_step = None

C2_Witness ==
    /\ pc = "act"
    /\ is_some(step_info)
    /\ last_step.pre_done
    /\ last_step.action = meta_state.inner_env

\* C3: the observation of the initial state of a trial, and of every state
\* produced by a step taken after the inner episode ended, has
\* prev_step = None and episode_done = false, with or without the limit.
C3_FirstObservationOfInnerEpisode ==
    LET begins == \/ (~is_some(step_info) /\ pc \in {"act", "step"})
                  \/ (is_some(step_info) /\ last_step.pre_done)
    IN begins => /\ current_obs.prev_step = None
                 /\ current_obs.episode_done = FALSE
                 /\ (pc = "step" => unwrap(obs) = current_obs)

C3_Witness ==
    /\ ~limited
    /\ pc = "step"
    /\ is_some(step_info)
    /\ last_step.pre_done

\* C4: the feedback of the step taken right after an inner episode ended is
\* the neutral outer feedback, Reward(0), for every inner environment and
\* every action.
C4_NeutralFeedbackAtBoundary ==
    /\ (is_some(step_info) /\ last_step.pre_done) => last_step.feedback = 0
    /\ (pc = "step" /\ inner_episode_done(meta_state)) =>
           \A a \in ActionSpace, r \in StepRng :
               Env_step(<< meta_state, remaining_episodes >>, a, r).feedback = 0

C4_Witness ==
    /\ is_some(step_info)
    /\ last_step.pre_done
    /\ is_some(obs)
    /\ is_some(unwrap(obs).prev_step)
    /\ unwrap(unwrap(obs).prev_step).feedback = 1

\* C5: in every observation of the meta environment, inner_observation is
\* None exactly when the inner successor is Terminate, and a None
\* inner_observation comes with episode_done = true.
C5_InnerObservationAbsentIffTerminal ==
    /\ pc # "idle" =>
         /\ (current_obs.inner_observation = None)
                <=> (meta_state.inner_successor[1] = "Terminate")
         /\ (meta_state.inner_successor[1] = "Interrupt") =>
                current_obs.inner_observation =
                    Some(Inner_observe(meta_state.inner_env, meta_state.inner_successor[2]))
         /\ (current_obs.inner_observation = None) => current_obs.episode_done
    /\ is_some(obs) =>
         (unwrap(obs).inner_observation = None => unwrap(obs).episode_done)

C5_Witness ==
    /\ is_some(obs)
    /\ unwrap(obs).inner_observation = None
    /\ unwrap(obs).episode_done

C5_WitnessInterrupt ==
    /\ meta_state.inner_successor[1] = "Interrupt"
    /\ is_some(current_obs.inner_observation)

\* C6: an act call on an observation with prev_step = Some((a, f)) gives the
\* inner agent exactly one update (o_prev, a, f, next), o_prev being the
\* inner observation given to the preceding act call and next following
\* inner_observation and episode_done; with prev_step = None no update is made.
C6_ExpectedNext(o) ==
    IF is_some(o.inner_observation)
    THEN IF o.episode_done THEN Interrupt(unwrap(o.inner_observation))
         ELSE Continue(<< >>)
    ELSE Terminate

C6_InnerUpdatePerPrevStep ==
    is_some(act_info) =>
        LET o == unwrap(obs)
        IN IF is_some(o.prev_step)
           THEN /\ is_some(prev_obs)
                /\ unwrap(prev_obs).episode_done = FALSE
                /\ (is_some(o.inner_observation) \/ o.episode_done)
                /\ last_act.updates =
                       << [observation |-> unwrap(unwrap(prev_obs).inner_observation),
                           action |-> unwrap(o.prev_step).action,
                           feedback |-> unwrap(o.prev_step).feedback,
                           next |-> C6_ExpectedNext(o)] >>
                /\ agent_state.inner_actor_agent.last_update = Some(last_act.updates[1])
           ELSE last_act.updates = << >>

C6_Witness ==
    /\ is_some(act_info)
    /\ Len(last_act.updates) = 1
    /\ last_act.updates[1].next[1] = "Interrupt"
    /\ last_act.updates[1].observation # unwrap(unwrap(obs).inner_observation)

\* C7: an act call on an observation with episode_done = true delivers the
\* prev_step update, leaves the inner actor with a fresh episode state and
\* no stored observation, does not ask the inner actor for an action and
\* returns an element of the action space; with episode_done = false it
\* stores the inner observation and returns the inner actor's action for it.
C7_ResetAtEpisodeEnd ==
    (is_some(act_info) /\ pc = "step") =>
        LET o == unwrap(obs)
        IN IF o.episode_done
           THEN /\ Len(last_act.updates) = (IF is_some(o.prev_step) THEN 1 ELSE 0)
                /\ agent_state.inner_actor_state =
                       ResettingMetaAgent_initial_state([act |-> 0, some |-> 0]).inner_actor_state
                /\ agent_state.prev_observation = None
                /\ last_act.inner_acts = << >>
                /\ unwrap(action) \in ActionSpace
           ELSE /\ agent_state.prev_observation = o.inner_observation
                /\ is_some(o.inner_observation)
                /\ Len(last_act.inner_acts) = 1
                /\ last_act.inner_acts[1].observation = unwrap(o.inner_observation)
                /\ action = Some(last_act.inner_acts[1].action)

C7_Witness ==
    /\ is_some(act_info)
    /\ pc = "step"
    /\ unwrap(obs).episode_done
    /\ Len(last_act.updates) = 1

\* C8: push reports full exactly when, counting the pushed step, the length
\* has reached the hard threshold, or has reached the soft threshold with a
\* pushed step whose successor is not Continue.
last_update == unwrap(upd_info)

C8_PushFullIff ==
    is_some(upd_info) =>
        LET len == Len(last_update.pushed)
            buffer == serial_batch_agent.history
        IN last_update.full <=>
               \/ len >= buffer.hard_threshold
               \/ (len >= buffer.soft_threshold /\ last_update.step.next[1] # "Continue")

C8_Witness ==
    /\ is_some(upd_info)
    /\ last_update.full
    /\ Len(last_update.pushed) < serial_batch_agent.history.hard_threshold
    /\ Len(last_update.pushed) >= 1

C8_WitnessNotFull ==
    /\ is_some(upd_info)
    /\ ~last_update.full
    /\ Len(last_update.pushed) >= serial_batch_agent.history.soft_threshold
    /\ serial_batch_agent.history.soft_threshold >= 1

\* C9: update pushes the step into the history buffer and runs one batch
\* update, on that one buffer, exactly when the push reported full; a push
\* that is not full leaves the step in the buffer and updates nothing.
C9_BatchUpdateIffFull ==
    is_some(upd_info) =>
        /\ Len(last_update.batch_updates) = (IF last_update.full THEN 1 ELSE 0)
        /\ last_update.full =>
               /\ Len(last_update.batch_updates[1].drained) = 1
               /\ last_update.batch_updates[1].drained[1] = last_update.pushed
        /\ ~last_update.full =>
               /\ serial_batch_agent.history.steps = last_update.pushed
               /\ pushed = last_update.pushed

C9_Witness ==
    /\ is_some(upd_info)
    /\ last_update.full
    /\ Len(last_update.pushed) = 2

C9_WitnessNotFull ==
    /\ is_some(upd_info)
    /\ ~last_update.full
    /\ Len(last_update.pushed) >= 1

\* C10: the drain of a batch update yields the pushed steps, each once and
\* in push order, and leaves the buffer empty; the steps the wrapped agent
\* receives are the pushed steps in push order.
C10_Core(step) ==
    [observation |-> step.observation, action |-> step.action, reward |-> step.reward]

C10_DrainInPushOrder ==
    (is_some(upd_info) /\ last_update.batch_updates # << >>) =>
        LET bu == last_update.batch_updates[1]
            all == last_update.pushed
            n == Len(bu.delivered)
        IN /\ bu.drained = << all >>
           /\ Len(serial_batch_agent.history.steps) = 0
           /\ n <= Len(all)
           /\ n >= Len(all) - 1
           /\ \A i \in 1 .. n : C10_Core(bu.delivered[i]) = C10_Core(all[i])

C10_Witness ==
    /\ is_some(upd_info)
    /\ last_update.batch_updates # << >>
    /\ Len(last_update.batch_updates[1].delivered) = 2
    /\ last_update.batch_updates[1].delivered[1].observation
           # last_update.batch_updates[1].delivered[2].observation

\* ------------------------------------------------------------------------
\* Multi-threaded runs
\* ------------------------------------------------------------------------
Workers == 1 .. Len(worker_threads)

\* C11: the parameters are mutated by the manager only, between rounds: a
\* batch update runs only after every worker of the round handed its buffer
\* over, no worker acts or pushes while it runs, batch_update is called once
\* per round, and a worker acts in round k + 1 with the parameters the
\* update of round k produced.
C11_UpdateBetweenRounds ==
    /\ agent_manager.status = "update" =>
          /\ Len(worker_threads) = num_workers
          /\ Len(agent_manager.buffers) = num_workers
          /\ \A w \in Workers :
                /\ worker_threads[w].status = "waiting"
                /\ worker_threads[w].round = agent_manager.round
                /\ worker_threads[w].buffer.steps = << >>
    /\ agent_manager.updates =
          agent_manager.round + (IF agent_manager.status = "update" THEN 1 ELSE 0)
    /\ Len(agent_manager.trajectory) = agent_manager.round + 1
    /\ \A w \in Workers :
          LET t == worker_threads[w]
          IN /\ t.status = "running" =>
                  /\ agent_manager.updates = t.round
                  /\ t.snapshot = agent_manager.params
             /\ t.status = "waiting" =>
                  agent_manager.updates \in {t.round, t.round + 1}
             /\ t.status \in {"running", "waiting"} =>
                  t.snapshot = agent_manager.trajectory[t.round + 1]

\* An update runs in the second round of a run with two workers.
C11_Witness ==
    /\ num_workers = 2
    /\ agent_manager.status = "update"
    /\ agent_manager.round = 1

\* A worker acts in the second round with updated parameters.
C11_WitnessNextRound ==
    \E w \in Workers :
        /\ worker_threads[w].status = "running"
        /\ worker_threads[w].round = 1
        /\ worker_threads[w].buffer.steps # << >>
        /\ worker_threads[w].snapshot # agent_manager.trajectory[1]

\* C12: the run returns only after every spawned worker thread finished and
\* was joined, and a panicked worker thread makes the run abort: it never
\* returns normally with a panicked worker.
C12_JoinAll ==
    /\ run_pc = "returned" =>
          /\ joined = num_workers
          /\ Len(worker_threads) = num_workers
          /\ \A w \in Workers : worker_threads[w].status = "finished"
    /\ \A w \in 1 .. joined : worker_threads[w].status = "finished"
    /\ run_pc = "aborted" => worker_threads[joined + 1].status = "panicked"

\* A run with two workers returned.
C12_Witness ==
    /\ run_pc = "returned"
    /\ num_workers = 2

\* A run aborted on the panic of its second worker.
C12_WitnessAbort ==
    /\ run_pc = "aborted"
    /\ joined = 1

\* The buffer a worker with the given seed fills in a round it acts in with
\* parameters p, and the parameters after k rounds of n workers.
RECURSIVE Expected_rollout(_, _, _)
Expected_rollout(seed, p, buffer) ==
    LET res == SerialBuffer_push(buffer, Worker_step(seed, p, Len(buffer.steps)))
    IN IF res.full THEN res.buffer ELSE Expected_rollout(seed, p, res.buffer)

RECURSIVE Expected_params(_, _, _)
Expected_params(k, n, p0) ==
    IF k = 0 THEN p0
    ELSE LET p == Expected_params(k - 1, n, p0)
         IN Manager_batch_update(p,
                [w \in 1 .. n |-> Expected_rollout(2 * (w - 1) + 1, p, Worker_buffer)], 1)

is_prefix(a, b) == Len(a) <= Len(b) /\ \A i \in 1 .. Len(a) : a[i] = b[i]

C13_WitnessReturned ==
    /\ num_workers = 2
    /\ agent_manager.round = NumPeriods
    /\ run_pc = "returned"

\* ------------------------------------------------------------------------
\* Logging
\* ------------------------------------------------------------------------
last_log == unwrap(log_info)

\* The calls the sink received after its first n calls.
calls_since(n) == SubSeq(sink.calls, n + 1, Len(sink.calls))

\* A LogGroup is among the wrappers from position i on.
\* The sink without the calls of a pair's second logger, which no group of
\* the chain wraps.
first_logger(s) == [s EXCEPT !.pair_calls = << >>]

group_from(ws, i) == \E j \in i .. Len(ws) : ws[j].kind = "group"

calls_named(calls, name) == {k \in 1 .. Len(calls) : calls[k].call = name}

\* C14: while a LogGroup is alive the logger it wraps has received one
\* group_start, at the creation of the group, and since then group_log
\* calls only: no group_start, group_end or flush; flush on the group does
\* nothing; dropping the group calls group_end once.  (A group wrapped
\* inside another group forwards nothing but group_log to the sink.)
C14_GroupDefersFlush ==
    /\ \A i \in 1 .. Len(wrappers) :
          wrappers[i].kind = "group" =>
            LET since == calls_since(wrappers[i].since)
                start == IF group_from(wrappers, i + 1) THEN 0 ELSE 1
            IN /\ Len(since) >= start
               /\ start = 1 => since[1].call = "group_start"
               /\ \A k \in (start + 1) .. Len(since) : since[k].call = "group_log"
    /\ (is_some(log_info) /\ last_log.op = "flush" /\ group_from(wrappers, 1)) =>
          first_logger(sink) = first_logger(last_log.before)
    /\ (is_some(log_info) /\ last_log.op = "drop" /\ last_log.dropped.kind = "group") =>
          IF group_from(wrappers, 1)
          THEN first_logger(sink) = first_logger(last_log.before)
          ELSE LET since == calls_since(last_log.dropped.since)
               IN /\ sink.calls = Append(last_log.before.calls, [call |-> "group_end"])
                  /\ Cardinality(calls_named(since, "group_start")) = 1
                  /\ Cardinality(calls_named(since, "group_end")) = 1
                  /\ calls_named(since, "flush") = {}

\* A group through which a value was logged has been dropped.
C14_Witness ==
    /\ is_some(log_info)
    /\ last_log.op = "drop"
    /\ last_log.dropped.kind = "group"
    /\ ~group_from(wrappers, 1)
    /\ calls_named(calls_since(last_log.dropped.since), "group_log") # {}

\* flush was called on a live group that wraps a scoped logger.
C14_WitnessFlush ==
    /\ is_some(log_info)
    /\ last_log.op = "flush"
    /\ Len(wrappers) = 2
    /\ wrappers[1].kind = "group"
    /\ wrappers[2].kind = "scope"

\* The group_log call the latest log call made on the sink.
last_new_calls == calls_since(Len(last_log.before.calls))
last_group_log == last_new_calls[CHOOSE k \in calls_named(last_new_calls, "group_log") : TRUE]

summaries_of(summaries, key) ==
    {summaries[i] : i \in Sink_find(summaries, key)}

\* C15: a log call is rejected with IncompatibleValue exactly when its id
\* has a summary of another variant, and with IncompatibleIndexSize exactly
\* when its id has an Index summary of another size; a rejected call leaves
\* the recorded data unchanged and closes its group, and every other call
\* succeeds and is added to the summary of its id, also after a rejection.
C15_IncompatibleValueReported ==
    (is_some(log_info) /\ last_log.op = "log") =>
      LET c == last_group_log
          before == last_log.before.summaries
          prevs == summaries_of(before, c.id)
          now == summaries_of(sink.summaries, c.id)
          conflict_variant == \E prev \in prevs : prev.variant # last_log.value.variant
          conflict_size == \E prev \in prevs :
                              /\ prev.variant = "Index"
                              /\ last_log.value.variant = "Index"
                              /\ prev.size # last_log.value.size
      IN /\ Cardinality(calls_named(last_new_calls, "group_log")) = 1
         /\ Cardinality(now) = 1
         /\ (last_log.result.tag = "IncompatibleValue") <=> conflict_variant
         /\ (last_log.result.tag = "IncompatibleIndexSize") <=> conflict_size
         /\ (last_log.result.tag = "Ok") <=> (~conflict_variant /\ ~conflict_size)
         /\ last_log.result.tag # "Ok" => sink.summaries = before
         /\ last_log.result.tag = "Ok" =>
               /\ \A i \in 1 .. Len(before) :
                     before[i].id # c.id => sink.summaries[i] = before[i]
               /\ \A m \in now :
                     /\ m.variant = last_log.value.variant
                     /\ m.count = 1 + (IF prevs = {} THEN 0
                                       ELSE (CHOOSE prev \in prevs : TRUE).count)
         /\ ~group_from(wrappers, 1) =>
               last_new_calls = << [call |-> "group_start"], c, [call |-> "group_end"] >>

\* A value was accepted under an id after a value of that id was rejected.
C15_Witness ==
    /\ is_some(log_info)
    /\ last_log.op = "log"
    /\ last_log.result.tag = "Ok"
    /\ last_log.before.rejected = 1
    /\ \E m \in summaries_of(sink.summaries, last_group_log.id) : m.count = 2

\* An Index value of another size was rejected.
C15_WitnessIndexSize ==
    /\ is_some(log_info)
    /\ last_log.op = "log"
    /\ last_log.result.tag = "IncompatibleIndexSize"

\* The scopes of the ScopedLoggers from position i on, the one closest to
\* the sink first.
RECURSIVE scopes_from(_, _)
scopes_from(ws, i) ==
    IF i > Len(ws) THEN << >>
    ELSE scopes_from(ws, i + 1) \o (IF ws[i].kind = "scope" THEN << ws[i].scope >> ELSE << >>)

\* C16: a value logged under id X through scoped wrappers reaches the sink
\* unchanged under the id whose components are the scopes, the one closest
\* to the sink leftmost, followed by the components of X; without wrappers
\* the id is X itself.
C16_ScopePrefix ==
    (is_some(log_info) /\ last_log.op = "log") =>
      /\ last_group_log.id = scopes_from(wrappers, 1) \o Id_components(last_log.id)
      /\ last_group_log.value = last_log.value

\* An id with a namespace was logged through two nested scopes.
C16_Witness ==
    /\ is_some(log_info)
    /\ last_log.op = "log"
    /\ Len(wrappers) = 2
    /\ wrappers[1].kind = "scope"
    /\ wrappers[2].kind = "scope"
    /\ wrappers[1].scope # wrappers[2].scope
    /\ last_log.id.namespace # << >>

\* An id was logged directly after a scoped wrapper was dropped.
C16_WitnessUnwrapped ==
    /\ is_some(log_info)
    /\ last_log.op = "log"
    /\ wrappers = << >>
    /\ log_ops = 3
\* ------------------------------------------------------------------------
\* Optimizer step errors
\* ------------------------------------------------------------------------
\* The steps of the latest update.
last_steps == IF is_some(opt_info) THEN unwrap(opt_info).steps ELSE << >>

\* The steps an update of the running rule makes when nothing stops it.
steps_of_update == IF opt_rule = "critic" THEN optimizer_iters ELSE 1

\* C17: a NaN loss or NaN constraint in an optimizer step is a recoverable
\* error: the step reports it as an error that can be continued from, the
\* update rule logs a warning, does not panic, the step leaves the parameter
\* as it was, and the update makes all its iterations.
C17_NaNLossRecoverable ==
    /\ \A k \in 1 .. Len(last_steps) :
          LET step == last_steps[k]
          IN (is_nan(step.loss) \/ step.result.err = "NaNConstraint") =>
                /\ step.result.tag = "Err"
                /\ can_continue(step.result.err)
                /\ step.warned
                /\ ~step.panicked
                /\ step.after = step.before
    /\ (\E k \in 1 .. Len(last_steps) : is_nan(last_steps[k].loss)) =>
          /\ ~opt_panicked
          /\ Len(last_steps) = steps_of_update

\* C18: a trust-region step that ends with LossNotImproving or
\* ConstraintViolated is a rejected step: the parameter is left as it was,
\* nothing panics and the update proceeds.
C18_RejectedStepNoPanic ==
    \A k \in 1 .. Len(last_steps) :
        LET step == last_steps[k]
        IN step.result.err \in {"LossNotImproving", "ConstraintViolated"} =>
              /\ step.after = step.before
              /\ ~step.panicked
              /\ ~opt_panicked

\* ------------------------------------------------------------------------
\* Finite spaces
\* ------------------------------------------------------------------------
last_space_call == unwrap(space_info)

called(op) == is_some(space_info) /\ last_space_call.op = op

\* C19: for every finite space, products of components of any sizes
\* included, from_index of an index at or beyond size() returns None without
\* panicking, and from_index returns Some only below size().
C19_FromIndexBeyondSizeAbsent ==
    called("from_index") =>
        LET call == last_space_call
        IN /\ call.index >= FiniteSpace_size(space) => call.result = Returned(None)
           /\ (~call.result.panicked /\ is_some(call.result.value)) =>
                 call.index < FiniteSpace_size(space)

\* C20: from_index(to_index(x)) = x for every element x of a finite space,
\* to_index(from_index(i)) = i for every i below size(), and from_index over
\* 0 .. size() - 1 yields size() distinct elements, all of the space.
C20_RoundTrip ==
    /\ called("to_index") =>
          FiniteSpace_from_index(space, last_space_call.index) = last_space_call.result
    /\ (called("from_index") /\ last_space_call.index < FiniteSpace_size(space)) =>
          LET result == last_space_call.result
          IN /\ ~result.panicked
             /\ is_some(result.value)
             /\ unwrap(result.value) \in Space_elements(space)
             /\ FiniteSpace_to_index(space, unwrap(result.value)) = last_space_call.index
    /\ space_info = None =>
          LET below == 0 .. FiniteSpace_size(space) - 1
              found == {FiniteSpace_from_index(space, i) : i \in below}
              elements == Space_elements(space)
          IN /\ \A r \in found : ~r.panicked /\ is_some(r.value)
                                 /\ unwrap(r.value) \in elements
             /\ Cardinality(found) = FiniteSpace_size(space)

\* A product of components of different sizes above one.
mixed_product ==
    /\ space.kind = "product"
    /\ \E j, k \in 1 .. Len(space.inner_spaces) :
          /\ j < k
          /\ FiniteSpace_size(space.inner_spaces[j]) > 1
          /\ FiniteSpace_size(space.inner_spaces[k]) > FiniteSpace_size(space.inner_spaces[j])

\* C20 witness: to_index of an element of such a product whose parts are
\* not all zero, both in first and last place.
C20_Witness ==
    /\ called("to_index")
    /\ mixed_product
    /\ LET element == unwrap(last_space_call.result.value)
       IN /\ element[1] > 0
          /\ element[Len(element)] > 0
          /\ element[1] # element[Len(element)]

\* C20 witness: from_index of the last index of such a product.
C20_WitnessFromIndex ==
    /\ called("from_index")
    /\ mixed_product
    /\ last_space_call.index = FiniteSpace_size(space) - 1
    /\ is_some(last_space_call.result.value)

\* The sizes n1 .. nk of the components of a product, and the indices
\* i1 .. ik of the parts of one of its elements.
component_sizes == [k \in 1 .. Len(space.inner_spaces) |->
                        FiniteSpace_size(space.inner_spaces[k])]

part_indices(element) == [k \in 1 .. Len(space.inner_spaces) |->
                              FiniteSpace_to_index(space.inner_spaces[k], element[k])]

\* n1 * ... * nk
RECURSIVE product_of(_, _)
product_of(sizes, k) == IF k = 0 THEN 1 ELSE product_of(sizes, k - 1) * sizes[k]

\* ((i1 * n2 + i2) * n3 + i3) * ... + ik
RECURSIVE row_major(_, _, _)
row_major(sizes, parts, k) ==
    IF k = 0 THEN 0
    ELSE IF k = 1 THEN parts[1]
    ELSE row_major(sizes, parts, k - 1) * sizes[k] + parts[k]

index_314 == ProductSpace(<< IndexSpace(3), IndexSpace(1), IndexSpace(4) >>)

\* C21: the size of a product of finite spaces is the product of the sizes
\* of its components, and to_index is the row-major index of the parts,
\* leftmost component most significant; for sizes (3, 1, 4) the size is 12
\* and the element (2, 0, 1) has index 9.
C21_RowMajorIndex ==
    space.kind = "product" =>
        /\ FiniteSpace_size(space) = product_of(component_sizes, Len(component_sizes))
        /\ called("to_index") =>
              last_space_call.index =
                  row_major(component_sizes,
                            part_indices(unwrap(last_space_call.result.value)),
                            Len(component_sizes))
        /\ space = index_314 =>
              /\ FiniteSpace_size(space) = 12
              /\ (called("to_index") /\ last_space_call.result.value = Some(<< 2, 0, 1 >>)) =>
                    last_space_call.index = 9

\* C21 witness: to_index of (2, 0, 1) in the product of sizes (3, 1, 4).
C21_Witness ==
    /\ space = index_314
    /\ called("to_index")
    /\ last_space_call.result.value = Some(<< 2, 0, 1 >>)
    /\ last_space_call.index = 9

\* ------------------------------------------------------------------------
\* Meta environment, continued
\* ------------------------------------------------------------------------
\* The feedback the inner environment gives for an action.
inner_feedback(a) == Inner_step(meta_state.inner_env, 0, a, [tag |-> "Continue", s |-> 0]).feedback

\* C22: after a step taken with action a from a state whose inner episode
\* continues, the observation of the new state has prev_step = Some((a,
\* f_inner)) and the step returned f_outer, where both equal the reward the
\* inner environment gave for a.
C22_StepRecordsActionAndFeedback ==
    (is_some(step_info) /\ ~last_step.pre_done) =>
        /\ current_obs.prev_step = Some([action |-> last_step.action,
                                         feedback |-> inner_feedback(last_step.action)])
        /\ last_step.feedback = inner_feedback(last_step.action)
        /\ last_step.inner_steps = 1

\* C22 witness: a rewarded step from a continuing inner episode.
C22_Witness ==
    /\ is_some(step_info)
    /\ ~last_step.pre_done
    /\ last_step.feedback = 1
    /\ current_obs.prev_step = Some([action |-> last_step.action, feedback |-> 1])

\* The first act of a trial has not been made yet.
trial_start == pc = "act" /\ ~is_some(act_info)

\* C23: the meta-level agent learns nothing and carries nothing across
\* trials: every trial starts with a newly built inner agent and no stored
\* previous observation, and neither act, the inner updates nor the
\* meta-level batch update (null buffer, empty data bound) modify the
\* ResettingMetaAgent itself.
C23_NothingCarriedAcrossTrials ==
    pc # "idle" =>
        /\ meta_agent = ResettingMetaAgent_from_meta_env
        /\ ResettingMetaAgent_buffer(meta_agent).steps = << >>
        /\ ResettingMetaAgent_min_update_size(meta_agent).min_steps = 0
        /\ trial_start =>
              /\ agent_state.inner_actor_agent = meta_agent.inner_agent_config
              /\ agent_state.inner_actor_agent.last_update = None
              /\ agent_state.prev_observation = None

\* C23 witness: the batch update made after a trial in which the inner
\* agent was updated.
C23_Witness ==
    /\ pc = "updated"
    /\ is_some(agent_state.inner_actor_agent.last_update)
    /\ meta_agent = ResettingMetaAgent_from_meta_env

\* C23 witness: the trial after it has started.
C23_WitnessTrialStart ==
    /\ trial_start
    /\ limited
    /\ agent_state.inner_actor_agent = build_agent

\* ------------------------------------------------------------------------
\* Batch updates, continued
\* ------------------------------------------------------------------------
\* The number of steps of a buffer that reach the wrapped agent: all, or all
\* but the last when the last step is a Continue step.
updates_of(steps) ==
    IF Len(steps) > 0 /\ steps[Len(steps)].next[1] = "Continue"
    THEN Len(steps) - 1 ELSE Len(steps)

\* The steps the wrapped agent is to receive for a buffer.
expected_updates(steps) ==
    [i \in 1 .. updates_of(steps) |->
        [observation |-> steps[i].observation,
         action |-> steps[i].action,
         reward |-> steps[i].reward,
         next |-> IF steps[i].next[1] = "Continue"
                  THEN Continue(steps[i + 1].observation)
                  ELSE steps[i].next]]

\* C24: batch_update gives every drained step of every buffer to the update
\* of the wrapped agent once and in buffer order; Terminate and Interrupt
\* successors pass unchanged, a Continue step gets the observation of the
\* next step of the same buffer, and a Continue step that is the last of its
\* buffer is skipped; a buffer of n steps gives n updates, or n - 1.
C24_BatchUpdateDelivery ==
    /\ is_some(batch_info) =>
          LET info == unwrap(batch_info)
              first == info.buffers[1].steps
              second == info.buffers[2].steps
          IN /\ info.drained = << first, second >>
             /\ info.delivered = expected_updates(first) \o expected_updates(second)
             /\ Len(info.delivered) = updates_of(first) + updates_of(second)
             /\ serial_batch_agent.agent.agent.last_update =
                    IF info.delivered = << >> THEN None
                    ELSE Some(info.delivered[Len(info.delivered)])
    /\ (is_some(upd_info) /\ last_update.batch_updates # << >>) =>
          /\ last_update.batch_updates[1].delivered = expected_updates(last_update.pushed)
          /\ Len(last_update.batch_updates[1].delivered) = updates_of(last_update.pushed)

\* C24 witness: two buffers of two steps; the first ends with a Continue
\* step, which is skipped, and the second starts at another observation.
C24_Witness ==
    /\ is_some(batch_info)
    /\ LET info == unwrap(batch_info)
           first == info.buffers[1].steps
           second == info.buffers[2].steps
       IN /\ Len(first) = 2 /\ Len(second) = 2
          /\ first[1].next[1] = "Continue" /\ first[2].next[1] = "Continue"
          /\ second[1].observation # first[2].observation
          /\ second[1].next[1] = "Interrupt" /\ second[2].next = Terminate
          /\ Len(info.delivered) = 3

\* C24 witness: a batch update of a full buffer whose last step continues.
C24_WitnessSerial ==
    /\ is_some(upd_info)
    /\ last_update.batch_updates # << >>
    /\ Len(last_update.pushed) = 2
    /\ Len(last_update.batch_updates[1].delivered) = 1

\* C25: with a trial limit and under the episode protocol no act call
\* panics: an observation with prev_step = Some meets a stored previous
\* inner observation, no observation has inner_observation = None with
\* episode_done = false, and the inner actor is asked to act only on an
\* observation whose inner_observation is Some.
C25_ActNeverPanics ==
    limited =>
        /\ pc # "panic"
        /\ is_some(act_info) =>
              /\ ~last_act.panic
              /\ last_act.inner_acts # << >> => is_some(unwrap(obs).inner_observation)
        /\ pc = "act" =>
              /\ is_some(current_obs.prev_step) => is_some(agent_state.prev_observation)
              /\ is_some(current_obs.inner_observation) \/ current_obs.episode_done

\* C25 witness: act is due on the observation of a terminated inner episode
\* that carries the step before it.
C25_Witness ==
    /\ limited
    /\ pc = "act"
    /\ is_some(current_obs.prev_step)
    /\ current_obs.inner_observation = None
    /\ current_obs.episode_done
    /\ is_some(agent_state.prev_observation)

\* C25 witness: the act call on such an observation has returned.
C25_WitnessActed ==
    /\ limited
    /\ pc = "step"
    /\ is_some(unwrap(obs).prev_step)
    /\ unwrap(obs).inner_observation = None
    /\ ~last_act.panic
    /\ last_act.inner_acts = << >>

\* C26: MetaEnv::step returns a Continue successor whatever the inner
\* successor is; so with a trial limit no step returns Terminate, a step
\* returns Interrupt only into a state whose inner episode is done, and the
\* last observation of every trial has episode_done = true.
C26_MetaStepAlwaysContinues ==
    /\ pc = "step" =>
          \A r \in StepRng :
              MetaEnv_step(meta_state, unwrap(action), r).successor[1] = "Continue"
    /\ is_some(step_info) =>
          /\ last_step.tag # "Terminate"
          /\ ~limited => last_step.tag = "Continue"
          /\ last_step.tag = "Interrupt" <=> pc \in {"start", "updated"}
          /\ last_step.tag = "Interrupt" =>
                /\ limited
                /\ inner_episode_done(meta_state)
                /\ current_obs.episode_done

\* C26 witness: a trial ended by Interrupt on the step that terminated its
\* last inner episode.
C26_Witness ==
    /\ is_some(step_info)
    /\ last_step.tag = "Interrupt"
    /\ meta_state.inner_successor = Terminate
    /\ current_obs.episode_done

\* C26 witness: without trial limit, the step after an inner episode that
\* terminated returned Continue.
C26_WitnessUnlimited ==
    /\ ~limited
    /\ is_some(step_info)
    /\ last_step.pre_done
    /\ last_step.tag = "Continue"

\* C29: with a trial limit, the counter of remaining episodes lies between 1
\* and episodes_per_trial in every state a step is taken from, so the
\* decrement never goes below 0, and the counter is 0 only in an Interrupt
\* successor; building the wrapper with, or starting a trial with,
\* episodes_per_trial = 0 panics.
C29_RemainingEpisodesInRange ==
    limited =>
        LET N == unwrap(wrapper)
        IN IF N = 0
           THEN pc \in {"new_panic", "start_panic"}
           ELSE /\ pc \notin {"new_panic", "start_panic"}
                /\ remaining_episodes \in 0 .. N
                /\ pc \in {"act", "step"} => remaining_episodes \in 1 .. N
                /\ remaining_episodes = 0 =>
                      /\ pc \in {"start", "updated"}
                      /\ is_some(step_info)
                      /\ last_step.tag = "Interrupt"
                /\ (is_some(step_info) /\ last_step.tag = "Interrupt") =>
                      /\ remaining_episodes = 0
                      /\ last_step.pre_remaining = 1

\* C29 witness: the last of several inner episodes ended and took the
\* counter from 1 to 0 in an Interrupt successor.
C29_Witness ==
    /\ limited
    /\ unwrap(wrapper) >= 2
    /\ is_some(step_info)
    /\ last_step.tag = "Interrupt"
    /\ last_step.pre_remaining = 1
    /\ remaining_episodes = 0

\* C29 witness: a wrapper of 0 episodes per trial panicked at the start of
\* its trial.
C29_WitnessZero ==
    /\ wrapper = Some(0)
    /\ pc = "start_panic"

\* The number of groups open after the first k calls of a call sequence.
open_groups(calls, k) ==
    Cardinality({j \in 1 .. k : calls[j].call = "group_start"})
    - Cardinality({j \in 1 .. k : calls[j].call = "group_end"})

\* group_start and group_end alternate, beginning with group_start, and
\* every group_log lies inside a group.
well_grouped(calls) ==
    \A k \in 1 .. Len(calls) :
        /\ open_groups(calls, k) \in {0, 1}
        /\ calls[k].call = "group_log" => open_groups(calls, k) = 1

\* C30: for every sequence of log calls, group creations and drops made
\* through mutable handles, ScopedLogger, LogGroup (nested too) and logger
\* pairs, each terminal logger sees group_start and group_end alternating,
\* beginning with group_start, with every group_log inside a group; log
\* issues group_end even when group_log returned an error.
C30_GroupCallsAlternate ==
    /\ well_grouped(sink.calls)
    /\ well_grouped(sink.pair_calls)
    /\ (\A i \in 1 .. Len(wrappers) : wrappers[i].kind # "group") =>
          /\ open_groups(sink.calls, Len(sink.calls)) = 0
          /\ open_groups(sink.pair_calls, Len(sink.pair_calls)) = 0
    /\ (is_some(log_info) /\ unwrap(log_info).op = "log"
          /\ (\A i \in 1 .. Len(wrappers) : wrappers[i].kind # "group")) =>
          sink.calls[Len(sink.calls)].call = "group_end"

\* C30 witness: a log call through a group nested in a group returned an
\* error while the outer group's group_start was the only one seen.
C30_Witness ==
    /\ is_some(log_info)
    /\ unwrap(log_info).op = "log"
    /\ unwrap(log_info).result.tag # "Ok"
    /\ Len(wrappers) = 2
    /\ wrappers[1].kind = "group"
    /\ wrappers[2].kind = "group"
    /\ Cardinality(calls_named(sink.calls, "group_start")) = 1
    /\ Cardinality(calls_named(sink.calls, "group_log")) = 2

\* C30 witness: a failing log call outside any group ended its group.
C30_WitnessErrorEnds ==
    /\ is_some(log_info)
    /\ unwrap(log_info).op = "log"
    /\ unwrap(log_info).result.tag # "Ok"
    /\ wrappers = << >>
    /\ sink.calls[Len(sink.calls)].call = "group_end"

\* C30 witness: a group created over a pair logged to both loggers.
C30_WitnessPair ==
    /\ Len(wrappers) = 2
    /\ wrappers[1].kind = "group"
    /\ wrappers[2].kind = "pair"
    /\ calls_named(sink.pair_calls, "group_log") # {}
    /\ calls_named(sink.calls, "group_log") # {}

\* The messages of the calls made so far that worker i has not handled yet:
\* the one it holds, then the one the owner has still to hand to it.
pending(i) ==
    (IF remote_workers[i].pc = "handle" THEN << unwrap(remote_workers[i].msg) >> ELSE << >>)
    \o (IF \/ remote_owner.pc = "send" /\ remote_owner.i <= i
           \/ remote_owner.pc = "recv" /\ remote_owner.i < i
        THEN << RemoteAgent_message(unwrap(remote_owner.call), i) >>
        ELSE << >>)

\* C27: a RemoteAgent behaves like the wrapped agent called directly: the
\* wrapped agent on the worker thread has processed the messages of the
\* owner's calls one at a time in call order (what it processed, followed by
\* what is still on its way, is what the direct agent processed), and each
\* act call returns the action computed for that call's observation.
C27_RemoteAgentRefinesDirect ==
    remote_owner.pc # "idle" =>
        /\ \A i \in Remotes :
              /\ remote_workers[i].agent.history \o pending(i)
                    = remote_info.direct[i].history
              /\ remote_workers[i].pc # "panicked"
        /\ is_some(remote_info.expected) =>
              /\ \A k \in 1 .. Len(remote_owner.actions) :
                    remote_owner.actions[k] = unwrap(remote_info.expected)[k]
              /\ remote_owner.pc \in {"ready", "dropped"} =>
                    remote_owner.actions = unwrap(remote_info.expected)
        /\ ~is_some(remote_info.expected) => remote_owner.actions = << >>

\* C27 witness: an act call that followed an update returned the two actions
\* the wrapped agents computed after processing that update.
C27_Witness ==
    /\ remote_owner.pc = "ready"
    /\ Len(remote_owner.actions) = 2
    /\ \A i \in Remotes :
          /\ Len(remote_owner.actions[i].seen) = 1
          /\ remote_owner.actions[i].seen[1].kind = "Update"
    /\ remote_owner.actions[1].obs # remote_owner.actions[2].obs

\* C27 witness: the second worker still handles the message of one call
\* while the owner is already sending the next call to the first worker.
C27_WitnessOverlap ==
    /\ remote_owner.pc = "send"
    /\ remote_owner.i = 1
    /\ remote_workers[2].pc = "handle"
    /\ Len(pending(2)) = 2

\* C28: the protocol cannot deadlock: every act, reset and update call
\* eventually returns, and once the handles are dropped every worker's
\* receive loop ends and its thread terminates.
C28_CallsReturnWorkersExit ==
    /\ (remote_owner.pc \in {"send", "recv"}) ~> (remote_owner.pc = "ready")
    /\ (remote_owner.pc = "dropped") ~>
          (\A i \in Remotes : remote_workers[i].pc = "exit")

\* C28 witness: after an act call the handles were dropped and both workers
\* have left their loops.
C28_Witness ==
    /\ remote_owner.pc = "dropped"
    /\ is_some(remote_info.expected)
    /\ \A i \in Remotes : remote_workers[i].pc = "exit"

\* C28 witness: the owner is blocked sending to a worker that is still busy
\* with the previous message.
C28_WitnessBlocked ==
    /\ remote_owner.pc = "send"
    /\ remote_workers[remote_owner.i].pc = "handle"

====
